---- MODULE Spec2Model ----
(***************************************************************************)
(* Matchbook CLOB engine: instruction handlers of the on-chain program     *)
(* (deposit, withdraw, place_order, cancel_order, cancel_all_orders,       *)
(* consume_events) over the Market, OpenOrders, book-side and event-queue  *)
(* accounts.                                                               *)
(*                                                                         *)
(* Every handler is a pure operator from the accounts it receives to the   *)
(* accounts it leaves behind plus the error it returns.  An instruction is *)
(* atomic: the accounts keep what the handler wrote only when it returns   *)
(* Ok.                                                                     *)
(*                                                                         *)
(* Widths: u64 is scaled to U64_BITS bits; an order id is two u64 words.   *)
(* A u32 node pointer is kept as its two 16-bit halves <<lo, hi>> so that  *)
(* the byte overlay of a leaf (owner_slot, time_in_force) and a free node  *)
(* (next) in one slab slot is kept.                                        *)
(***************************************************************************)
EXTENDS Integers, Sequences, FiniteSets, TLC

VARIABLES market, oos, bids, asks, eq, wallet, vault, placed, released, settled,
          enqueued, dequeued, indexer, ret

vars == <<market, oos, bids, asks, eq, wallet, vault, placed, released, settled,
          enqueued, dequeued, indexer, ret>>

(***************************************************************************)
(* Bounds of the model                                                     *)
(***************************************************************************)
U64_BITS == 4
BYTE_BITS == 1
MAX_ORDERS == 2
NodeCap == 2
EventCap == 2
MaxSeq == 2
Supply == 2

(***************************************************************************)
(* Program constants                                                       *)
(***************************************************************************)
U64_MAX == 2^U64_BITS - 1
WORD == 2^U64_BITS
(* one byte of a u64, and its seven low bytes, at the scaled width *)
BYTE == 2^BYTE_BITS
LOW == 2^(U64_BITS - BYTE_BITS)
SENTINEL == <<65535, 65535>>
EMPTY_ORDER_ID == 0
NONE == -1

TAG_UNINIT == 0
TAG_LEAF == 2
TAG_FREE == 3
EV_EMPTY == 0
EV_FILL == 1
EV_OUT == 2
REASON_CANCELLED == 0

Sides == {"Bid", "Ask"}
OrderTypes == {"Limit", "ImmediateOrCancel", "PostOnly", "FillOrKill"}
Statuses == {"Active", "Paused", "Closed"}

Accounts == {"oo1", "oo2"}
ZERO_KEY == "default"
OwnerOf == [a \in Accounts |-> IF a = "oo1" THEN "alice" ELSE "bob"]
DelegateOf == [a \in Accounts |-> IF a = "oo1" THEN "dave" ELSE ZERO_KEY]
Signers == {"alice", "bob", "dave"}

Prices == {2, 3}
Quantities == {1, 2}
BaseAmounts == {0, 2}
QuoteAmounts == {0, 2}
ClientIds == {7}
BaseLotSizes == {2}
QuoteLotSizes == {1}
TickSizes == {1}
MinOrderSizes == {1}

(***************************************************************************)
(* u64 arithmetic                                                          *)
(***************************************************************************)
Min(a, b) == IF a < b THEN a ELSE b
Max(a, b) == IF a > b THEN a ELSE b

checked_add(a, b) == IF a + b > U64_MAX THEN NONE ELSE a + b
checked_mul(a, b) == IF a * b > U64_MAX THEN NONE ELSE a * b
checked_div(a, b) == IF b = 0 THEN NONE ELSE a \div b
saturating_add(a, b) == Min(a + b, U64_MAX)
saturating_sub(a, b) == Max(a - b, 0)

(* u32 pointers as <<lo16, hi16>> *)
U32(i) == <<i, 0>>
InRange(p) == p[2] = 0 /\ p[1] < NodeCap
Idx(p) == p[1]

(***************************************************************************)
(* OrderId  (state/orderbook.rs)                                           *)
(***************************************************************************)
new_bid_plain(price, seq_num) == price * WORD + seq_num
new_bid(price, seq_num) == (U64_MAX - price) * WORD + seq_num
new_ask(price, seq_num) == price * WORD + seq_num
order_price_raw(id, is_bid) == id \div WORD
order_price(id, is_bid) ==
    LET raw == id \div WORD IN IF is_bid THEN U64_MAX - raw ELSE raw
order_seq_num(id) == id % WORD

(***************************************************************************)
(* Market  (state/market.rs)                                               *)
(***************************************************************************)
is_active(m) == m.status = "Active"
(* cancellations allowed only while the market takes new orders *)
allows_cancellations_active_only(st) == st = "Active"

allows_cancellations(st) == st \in {"Active", "Paused"}
next_seq_num_wrapping(m) ==
    LET n == (m.seq_num + 1) % (U64_MAX + 1)
    IN [some |-> TRUE, m |-> [m EXCEPT !.seq_num = n], seq |-> n]
next_seq_num(m) ==
    LET n == checked_add(m.seq_num, 1)
    IN IF n = NONE THEN [some |-> FALSE, m |-> m, seq |-> NONE]
       ELSE [some |-> TRUE, m |-> [m EXCEPT !.seq_num = n], seq |-> n]

(***************************************************************************)
(* OpenOrders  (state/open_orders.rs)                                      *)
(***************************************************************************)
SlotIdx == 0 .. (MAX_ORDERS - 1)
EmptySlot == [order_id |-> EMPTY_ORDER_ID, client_order_id |-> 0, side |-> "Bid"]
slot_is_empty(s) == s.order_id = EMPTY_ORDER_ID

is_authorized(oo, signer) ==
    signer = oo.owner \/ (oo.delegate # ZERO_KEY /\ signer = oo.delegate)

find_free_slot(oo) ==
    LET free == {i \in SlotIdx : slot_is_empty(oo.orders[i])}
    IN IF free = {} THEN NONE ELSE CHOOSE i \in free : \A j \in free : i <= j

add_order(oo, slot_index, order_id, client_order_id, side) ==
    IF slot_index >= MAX_ORDERS THEN oo
    ELSE IF ~slot_is_empty(oo.orders[slot_index]) THEN oo
    ELSE [oo EXCEPT !.orders[slot_index] =
                        [order_id |-> order_id,
                         client_order_id |-> client_order_id,
                         side |-> side],
                    !.num_orders = Min(@ + 1, 255)]

remove_order(oo, slot_index) ==
    IF slot_index >= MAX_ORDERS THEN oo
    ELSE IF slot_is_empty(oo.orders[slot_index]) THEN oo
    ELSE [oo EXCEPT !.orders[slot_index] = EmptySlot,
                    !.num_orders = Max(@ - 1, 0)]

find_order(oo, order_id) ==
    LET hit == {i \in SlotIdx : oo.orders[i].order_id = order_id}
    IN IF hit = {} THEN NONE ELSE CHOOSE i \in hit : \A j \in hit : i <= j

(* lock_base that debits the free balance and forgets to credit the locked one *)
lock_base_debit_only(oo, amount) ==
    IF oo.base_free < amount THEN [ok |-> FALSE, oo |-> oo]
    ELSE [ok |-> TRUE, oo |-> [oo EXCEPT !.base_free = saturating_sub(@, amount)]]

lock_base(oo, amount) ==
    IF oo.base_free < amount THEN [ok |-> FALSE, oo |-> oo]
    ELSE [ok |-> TRUE,
          oo |-> [oo EXCEPT !.base_free = saturating_sub(@, amount),
                            !.base_locked = saturating_add(@, amount)]]

lock_quote(oo, amount) ==
    IF oo.quote_free < amount THEN [ok |-> FALSE, oo |-> oo]
    ELSE [ok |-> TRUE,
          oo |-> [oo EXCEPT !.quote_free = saturating_sub(@, amount),
                            !.quote_locked = saturating_add(@, amount)]]

release_base(oo, amount) ==
    IF oo.base_locked < amount THEN [ok |-> FALSE, oo |-> oo]
    ELSE [ok |-> TRUE,
          oo |-> [oo EXCEPT !.base_locked = saturating_sub(@, amount),
                            !.base_free = saturating_add(@, amount)]]

release_quote(oo, amount) ==
    IF oo.quote_locked < amount THEN [ok |-> FALSE, oo |-> oo]
    ELSE [ok |-> TRUE,
          oo |-> [oo EXCEPT !.quote_locked = saturating_sub(@, amount),
                            !.quote_free = saturating_add(@, amount)]]


(***************************************************************************)
(* Book side slab  (state/orderbook.rs, place_order.rs, cancel_order.rs)   *)
(*   node bytes: tag(0) b1(1) b2(2) hi(3..4) key(8..24) owner(24..56)      *)
(*   quantity(56..64) client_order_id(64..72).  A leaf keeps owner_slot in *)
(*   b1 and time_in_force in b2; a free node keeps next in bytes 1..5.     *)
(***************************************************************************)
NodeIdx == 0 .. (NodeCap - 1)
ZeroNode == [tag |-> TAG_UNINIT, b1 |-> 0, b2 |-> 0, hi |-> 0, key |-> 0,
             owner |-> ZERO_KEY, quantity |-> 0, client_order_id |-> 0]
EmptyBook == [leaf_count |-> 0, free_list_head |-> SENTINEL, root |-> SENTINEL,
              nodes |-> [i \in NodeIdx |-> ZeroNode]]

to_time_in_force(order_type) ==
    CASE order_type = "Limit" -> 0
      [] order_type = "ImmediateOrCancel" -> 1
      [] order_type = "PostOnly" -> 3
      [] order_type = "FillOrKill" -> 2

is_post_only(order_type) == order_type = "PostOnly"

LeafNode_new(owner_slot, tif, key, owner, quantity, client_order_id) ==
    [owner_slot |-> owner_slot, time_in_force |-> tif, key |-> key,
     owner |-> owner, quantity |-> quantity, client_order_id |-> client_order_id]

(* bytes 1..5 of a node read as a little-endian u32 *)
read_next(node) == <<node.b1 + 256 * node.b2, node.hi>>

write_leaf(node, leaf) ==
    [node EXCEPT !.tag = TAG_LEAF, !.b1 = leaf.owner_slot, !.b2 = leaf.time_in_force,
                 !.key = leaf.key, !.owner = leaf.owner, !.quantity = leaf.quantity,
                 !.client_order_id = leaf.client_order_id]

write_free(node, next) ==
    [node EXCEPT !.tag = TAG_FREE, !.b1 = next[1] % 256, !.b2 = next[1] \div 256,
                 !.hi = next[2]]

insert_order(book, leaf) ==
    IF book.root = SENTINEL
    THEN LET new_node_index == IF book.free_list_head # SENTINEL
                               THEN book.free_list_head ELSE U32(book.leaf_count)
         IN IF ~InRange(new_node_index)
            THEN [err |-> "InvalidAccountData", book |-> book]
            ELSE [err |-> "Ok",
                  book |-> [book EXCEPT
                      !.nodes[Idx(new_node_index)] = write_leaf(@, leaf),
                      !.root = new_node_index,
                      !.leaf_count = @ + 1]]
    ELSE IF book.free_list_head # SENTINEL
    THEN IF ~InRange(book.free_list_head)
         THEN [err |-> "Panic", book |-> book]
         ELSE LET new_node_index == book.free_list_head
                  next_free == read_next(book.nodes[Idx(new_node_index)])
              IN [err |-> "Ok",
                  book |-> [book EXCEPT
                      !.free_list_head = next_free,
                      !.nodes[Idx(new_node_index)] = write_leaf(@, leaf)]]
    ELSE LET new_node_index == U32(book.leaf_count)
         IN IF ~InRange(new_node_index)
            THEN [err |-> "InvalidAccountData", book |-> book]
            ELSE [err |-> "Ok",
                  book |-> [book EXCEPT
                      !.nodes[Idx(new_node_index)] = write_leaf(@, leaf),
                      !.leaf_count = @ + 1]]

get_best_price(book, is_bids) ==
    IF book.root = SENTINEL THEN NONE ELSE NONE

check_would_cross(bk_bids, bk_asks, side, price) ==
    IF side = "Bid"
    THEN LET best_ask == get_best_price(bk_asks, FALSE)
         IN best_ask # NONE /\ price >= best_ask
    ELSE LET best_bid == get_best_price(bk_bids, TRUE)
         IN best_bid # NONE /\ price <= best_bid

remove_order_from_book(book, order_id, side) ==
    IF book.root = SENTINEL
    THEN [err |-> "OrderNotFound", book |-> book, quantity |-> 0, price |-> 0]
    ELSE LET max_nodes == Min(book.leaf_count * 2, NodeCap)
             hits == {i \in NodeIdx : i < max_nodes
                                       /\ book.nodes[i].tag = TAG_LEAF
                                       /\ book.nodes[i].key = order_id}
         IN IF hits = {}
            THEN [err |-> "OrderNotFound", book |-> book, quantity |-> 0, price |-> 0]
            ELSE LET node_index == CHOOSE i \in hits : \A j \in hits : i <= j
                     new_count == Max(book.leaf_count - 1, 0)
                 IN [err |-> "Ok",
                     book |-> [book EXCEPT
                         !.nodes[node_index] = write_free(@, book.free_list_head),
                         !.free_list_head = U32(node_index),
                         !.leaf_count = new_count,
                         !.root = IF new_count = 0 THEN SENTINEL ELSE @],
                     quantity |-> book.nodes[node_index].quantity,
                     price |-> order_price(order_id, side = "Bid")]

(***************************************************************************)
(* Event queue as the handlers read and write it                           *)
(*   (cancel_order.rs push_out_event, consume_events.rs)                   *)
(***************************************************************************)
EvIdx == 0 .. (EventCap - 1)
ZeroEvent == [tag |-> EV_EMPTY, side |-> "Bid", owner |-> ZERO_KEY, order_id |-> 0,
              client_order_id |-> 0, base_released |-> 0, quote_released |-> 0,
              reason |-> 0, taker |-> ZERO_KEY, price |-> 0, quantity |-> 0,
              taker_fee |-> 0, maker_rebate |-> 0]
EmptyQueue == [head |-> 0, count |-> 0, seq_num |-> 0,
               events |-> [i \in EvIdx |-> ZeroEvent]]

OutEvent_new(side, owner, order_id, client_order_id, base_released, quote_released, reason) ==
    [side |-> side, owner |-> owner, order_id |-> order_id,
     client_order_id |-> client_order_id, base_released |-> base_released,
     quote_released |-> quote_released, reason |-> reason]

(* the bytes push_out_event writes into a slot; the other bytes stay *)
write_out(slot, event) ==
    [slot EXCEPT !.tag = EV_OUT, !.side = event.side, !.owner = event.owner,
                 !.order_id = event.order_id,
                 !.client_order_id = event.client_order_id,
                 !.base_released = event.base_released,
                 !.quote_released = event.quote_released,
                 !.reason = event.reason]

push_out_event(q, event) ==
    LET capacity == EventCap
    IN IF capacity = 0 THEN [err |-> "EventQueueFull", q |-> q]
       ELSE IF q.count >= capacity THEN [err |-> "EventQueueFull", q |-> q]
       ELSE LET tail == (q.head + q.count) % capacity
            IN [err |-> "Ok",
                q |-> [q EXCEPT !.events[tail] = write_out(@, event),
                                !.count = @ + 1,
                                !.seq_num = saturating_add(@, 1)]]

read_next_event(q) ==
    IF q.count = 0 THEN NONE
    ELSE IF EventCap = 0 THEN NONE
    ELSE q.head % EventCap

(* the head moves on but the event is still counted as queued *)
pop_event_keeps_count(q) ==
    IF q.count = 0 THEN q
    ELSE [q EXCEPT !.head = (@ + 1) % EventCap]

(* the head runs past the end of the buffer *)
pop_event_no_wrap(q) ==
    IF q.count = 0 THEN q
    ELSE [q EXCEPT !.head = @ + 1, !.count = Max(@ - 1, 0)]

pop_event(q) ==
    IF q.count = 0 THEN q
    ELSE IF EventCap = 0 THEN q
    ELSE [q EXCEPT !.head = (@ + 1) % EventCap,
                   !.count = Max(@ - 1, 0)]

(***************************************************************************)
(* place_order.rs                                                          *)
(***************************************************************************)
(* validate that looks at the quantity before the price *)
validate_quantity_first(params, tick_size, min_order_size) ==
    IF ~(params.quantity > 0) THEN "InvalidQuantity"
    ELSE IF ~(params.quantity >= min_order_size) THEN "OrderTooSmall"
    ELSE IF ~(params.price > 0) THEN "InvalidPrice"
    ELSE IF ~((tick_size = 0 /\ params.price = 0)
              \/ (tick_size # 0 /\ params.price % tick_size = 0)) THEN "InvalidTickSize"
    ELSE "Ok"

validate(params, tick_size, min_order_size) ==
    IF ~(params.price > 0) THEN "InvalidPrice"
    ELSE IF ~((tick_size = 0 /\ params.price = 0)
              \/ (tick_size # 0 /\ params.price % tick_size = 0)) THEN "InvalidTickSize"
    ELSE IF ~(params.quantity > 0) THEN "InvalidQuantity"
    ELSE IF ~(params.quantity >= min_order_size) THEN "OrderTooSmall"
    ELSE "Ok"

calculate_lock_amount(side, price, quantity, base_lot_size, quote_lot_size) ==
    IF side = "Ask"
    THEN checked_mul(quantity, base_lot_size)
    ELSE LET n1 == checked_mul(quantity, price)
         IN IF n1 = NONE THEN NONE
            ELSE LET numerator == checked_mul(n1, quote_lot_size)
                 IN IF numerator = NONE THEN NONE
                    ELSE checked_div(numerator, base_lot_size)

(* Result of a handler: the error it returns and the accounts as it left them *)
PlaceRes(err, m, oo, bk_bids, bk_asks, order_id) ==
    [err |-> err, market |-> m, oo |-> oo, bids |-> bk_bids, asks |-> bk_asks,
     order_id |-> order_id]

place_order(m, oo, oo_key, authority, bk_bids, bk_asks, params) ==
    IF ~is_active(m)
    THEN PlaceRes("MarketNotActive", m, oo, bk_bids, bk_asks, 0)
    ELSE IF ~is_authorized(oo, authority)
    THEN PlaceRes("Unauthorized", m, oo, bk_bids, bk_asks, 0)
    ELSE IF validate(params, m.tick_size, m.min_order_size) # "Ok"
    THEN PlaceRes(validate(params, m.tick_size, m.min_order_size),
                  m, oo, bk_bids, bk_asks, 0)
    ELSE
    LET lock_amount == calculate_lock_amount(params.side, params.price, params.quantity,
                                             m.base_lot_size, m.quote_lot_size)
    IN IF lock_amount = NONE
       THEN PlaceRes("ArithmeticOverflow", m, oo, bk_bids, bk_asks, 0)
       ELSE
       LET locked == IF params.side = "Ask" THEN lock_base(oo, lock_amount)
                     ELSE lock_quote(oo, lock_amount)
       IN IF ~locked.ok
          THEN PlaceRes("InsufficientFunds", m, oo, bk_bids, bk_asks, 0)
          ELSE
          LET slot_index == find_free_slot(locked.oo)
          IN IF slot_index = NONE
             THEN PlaceRes("TooManyOrders", m, locked.oo, bk_bids, bk_asks, 0)
             ELSE
             LET nxt == next_seq_num(m)
             IN IF ~nxt.some
                THEN PlaceRes("ArithmeticOverflow", m, locked.oo, bk_bids, bk_asks, 0)
                ELSE
                LET order_id == IF params.side = "Bid"
                                THEN new_bid(params.price, nxt.seq)
                                ELSE new_ask(params.price, nxt.seq)
                IN IF is_post_only(params.order_type)
                      /\ check_would_cross(bk_bids, bk_asks, params.side, params.price)
                   THEN PlaceRes("PostOnlyWouldCross", nxt.m,
                                 IF params.side = "Ask"
                                 THEN release_base(locked.oo, lock_amount).oo
                                 ELSE release_quote(locked.oo, lock_amount).oo,
                                 bk_bids, bk_asks, order_id)
                   ELSE
                   LET oo2 == add_order(locked.oo, slot_index, order_id,
                                        params.client_order_id, params.side)
                       leaf == LeafNode_new(slot_index,
                                            to_time_in_force(params.order_type),
                                            order_id, oo_key, params.quantity,
                                            params.client_order_id)
                       ins == insert_order(IF params.side = "Bid" THEN bk_bids
                                           ELSE bk_asks, leaf)
                   IN PlaceRes(ins.err, nxt.m, oo2,
                               IF params.side = "Bid" THEN ins.book ELSE bk_bids,
                               IF params.side = "Ask" THEN ins.book ELSE bk_asks,
                               order_id)

(***************************************************************************)
(* cancel_order.rs                                                         *)
(***************************************************************************)
release_amounts_checked(side, quantity, price, m) ==
    IF side = "Ask"
    THEN LET base_amount == checked_mul(quantity, m.base_lot_size)
         IN IF base_amount = NONE THEN [ok |-> FALSE, amounts |-> <<0, 0>>]
            ELSE [ok |-> TRUE, amounts |-> <<base_amount, 0>>]
    ELSE LET q == calculate_lock_amount("Bid", price, quantity,
                                        m.base_lot_size, m.quote_lot_size)
         IN IF q = NONE THEN [ok |-> FALSE, amounts |-> <<0, 0>>]
            ELSE [ok |-> TRUE, amounts |-> <<0, q>>]

apply_release(oo, base_released, quote_released) ==
    LET oo1 == IF base_released > 0 THEN release_base(oo, base_released).oo ELSE oo
    IN IF quote_released > 0 THEN release_quote(oo1, quote_released).oo ELSE oo1

CancelRes(err, oo, bk_bids, bk_asks, q, rel) ==
    [err |-> err, oo |-> oo, bids |-> bk_bids, asks |-> bk_asks, eq |-> q,
     released |-> rel]

cancel_order(m, oo, oo_key, authority, bk_bids, bk_asks, q, params) ==
    IF params.order_id = 0
    THEN CancelRes("InvalidClientOrderId", oo, bk_bids, bk_asks, q, <<0, 0>>)
    ELSE IF ~allows_cancellations(m.status)
    THEN CancelRes("MarketClosed", oo, bk_bids, bk_asks, q, <<0, 0>>)
    ELSE IF ~is_authorized(oo, authority)
    THEN CancelRes("Unauthorized", oo, bk_bids, bk_asks, q, <<0, 0>>)
    ELSE IF find_order(oo, params.order_id) = NONE
    THEN CancelRes("OrderNotFound", oo, bk_bids, bk_asks, q, <<0, 0>>)
    ELSE
    LET slot_index == find_order(oo, params.order_id)
        client_order_id == oo.orders[slot_index].client_order_id
        rm == remove_order_from_book(IF params.side = "Bid" THEN bk_bids ELSE bk_asks,
                                     params.order_id, params.side)
        b2 == IF params.side = "Bid" THEN rm.book ELSE bk_bids
        a2 == IF params.side = "Ask" THEN rm.book ELSE bk_asks
    IN IF rm.err # "Ok"
       THEN CancelRes(rm.err, oo, bk_bids, bk_asks, q, <<0, 0>>)
       ELSE
       LET chk == release_amounts_checked(params.side, rm.quantity, rm.price, m)
           rel == chk.amounts
       IN IF ~chk.ok
          THEN CancelRes("ArithmeticOverflow", oo, b2, a2, q, <<0, 0>>)
          ELSE
          LET oo1 == apply_release(oo, rel[1], rel[2])
              oo2 == remove_order(oo1, slot_index)
              out_event == OutEvent_new(params.side, oo_key, params.order_id,
                                        client_order_id, rel[1], rel[2],
                                        REASON_CANCELLED)
              pushed == push_out_event(q, out_event)
          IN CancelRes(pushed.err, oo2, b2, a2, pushed.q, rel)

(***************************************************************************)
(* cancel_all_orders.rs                                                    *)
(***************************************************************************)
matches_side(filter, side) == filter = "None" \/ filter = side

release_amounts_or_zero(side, quantity, price, m) ==
    IF side = "Ask"
    THEN LET base_amount == checked_mul(quantity, m.base_lot_size)
         IN <<IF base_amount = NONE THEN 0 ELSE base_amount, 0>>
    ELSE LET q == calculate_lock_amount("Bid", price, quantity,
                                        m.base_lot_size, m.quote_lot_size)
         IN <<0, IF q = NONE THEN 0 ELSE q>>

(* loop state: accounts so far, cancelled_count, and the orders handled *)
RECURSIVE cancel_all_loop(_, _, _, _, _, _)
cancel_all_loop(slot_index, st, m, oo_key, filter, limit) ==
    IF slot_index >= MAX_ORDERS THEN st
    ELSE IF st.cancelled_count >= limit THEN st
    ELSE
    LET order_slot == st.oo.orders[slot_index]
    IN IF slot_is_empty(order_slot)
       THEN cancel_all_loop(slot_index + 1, st, m, oo_key, filter, limit)
       ELSE IF ~matches_side(filter, order_slot.side)
       THEN cancel_all_loop(slot_index + 1, st, m, oo_key, filter, limit)
       ELSE
       LET side == order_slot.side
           rm == remove_order_from_book(IF side = "Bid" THEN st.bids ELSE st.asks,
                                        order_slot.order_id, side)
       IN IF rm.err # "Ok"
          THEN cancel_all_loop(slot_index + 1,
                   [st EXCEPT !.oo = remove_order(@, slot_index),
                              !.log = Append(@, [order_id |-> order_slot.order_id,
                                                 in_book |-> FALSE,
                                                 released |-> <<0, 0>>])],
                   m, oo_key, filter, limit)
          ELSE
          LET rel == release_amounts_or_zero(side, rm.quantity, rm.price, m)
              oo1 == apply_release(st.oo, rel[1], rel[2])
              oo2 == remove_order(oo1, slot_index)
              out_event == OutEvent_new(side, oo_key, order_slot.order_id,
                                        order_slot.client_order_id, rel[1], rel[2],
                                        REASON_CANCELLED)
              pushed == push_out_event(st.eq, out_event)
          IN cancel_all_loop(slot_index + 1,
                   [oo |-> oo2,
                    bids |-> IF side = "Bid" THEN rm.book ELSE st.bids,
                    asks |-> IF side = "Ask" THEN rm.book ELSE st.asks,
                    eq |-> pushed.q,
                    cancelled_count |-> Min(st.cancelled_count + 1, 255),
                    log |-> Append(st.log, [order_id |-> order_slot.order_id,
                                            in_book |-> TRUE,
                                            released |-> rel])],
                   m, oo_key, filter, limit)

cancel_all_orders(m, oo, oo_key, authority, bk_bids, bk_asks, q, params) ==
    LET st0 == [oo |-> oo, bids |-> bk_bids, asks |-> bk_asks, eq |-> q,
                cancelled_count |-> 0, log |-> <<>>]
    IN IF ~(params.limit > 0) THEN [err |-> "InvalidQuantity", st |-> st0]
       ELSE IF ~allows_cancellations(m.status) THEN [err |-> "MarketClosed", st |-> st0]
       ELSE IF ~is_authorized(oo, authority) THEN [err |-> "Unauthorized", st |-> st0]
       ELSE [err |-> "Ok",
             st |-> cancel_all_loop(0, st0, m, oo_key, params.side, params.limit)]

(***************************************************************************)
(* consume_events.rs                                                       *)
(***************************************************************************)
(* The settlement functions address an OpenOrders balance at                *)
(* 8 + 1 + 7 + 32 + 32 + 32 + 8k, seven bytes past the place where the      *)
(* account's serialisation (bump(1) straight after the discriminator) keeps *)
(* it: the eight bytes they read and write are the top byte of that balance *)
(* followed by the seven low bytes of the next field.                       *)
read_raw(this, next) == (this \div LOW) + (next % LOW) * BYTE
write_raw_this(this, v) == (this % LOW) + (v % BYTE) * LOW
write_raw_next(next, v) == (next \div LOW) * LOW + (v \div BYTE)

raw_base_locked(oo) == read_raw(oo.base_locked, oo.quote_locked)
raw_quote_locked(oo) == read_raw(oo.quote_locked, oo.base_free)
raw_base_free(oo) == read_raw(oo.base_free, oo.quote_free)
raw_quote_free(oo) == read_raw(oo.quote_free, oo.referrer_rebates)

store_base_locked(oo, v) ==
    [oo EXCEPT !.base_locked = write_raw_this(@, v), !.quote_locked = write_raw_next(@, v)]
store_quote_locked(oo, v) ==
    [oo EXCEPT !.quote_locked = write_raw_this(@, v), !.base_free = write_raw_next(@, v)]
store_base_free(oo, v) ==
    [oo EXCEPT !.base_free = write_raw_this(@, v), !.quote_free = write_raw_next(@, v)]
store_quote_free(oo, v) ==
    [oo EXCEPT !.quote_free = write_raw_this(@, v),
               !.referrer_rebates = write_raw_next(@, v)]

settle_taker_bid(oo, base_amount, quote_amount, taker_fee) ==
    LET quote_locked == raw_quote_locked(oo)
        base_free == raw_base_free(oo)
    IN store_quote_locked(
          store_base_free(oo, saturating_add(base_free, base_amount)),
          saturating_sub(quote_locked, saturating_add(quote_amount, taker_fee)))

settle_taker_ask(oo, base_amount, quote_amount, taker_fee) ==
    LET base_locked == raw_base_locked(oo)
        quote_free == raw_quote_free(oo)
    IN store_base_locked(
          store_quote_free(oo, saturating_add(quote_free,
                                              saturating_sub(quote_amount, taker_fee))),
          saturating_sub(base_locked, base_amount))

settle_maker_ask(oo, base_amount, quote_amount, maker_rebate) ==
    LET base_locked == raw_base_locked(oo)
        quote_free == raw_quote_free(oo)
    IN store_base_locked(
          store_quote_free(oo, saturating_add(quote_free,
                                              saturating_add(quote_amount, maker_rebate))),
          saturating_sub(base_locked, base_amount))

settle_maker_bid(oo, base_amount, quote_amount, maker_rebate) ==
    LET quote_locked == raw_quote_locked(oo)
        base_free == raw_base_free(oo)
    IN store_quote_locked(
          store_base_free(oo, saturating_add(base_free, base_amount)),
          saturating_sub(quote_locked, saturating_sub(quote_amount, maker_rebate)))

release_funds(oo, base_released, quote_released) ==
    LET base_locked == raw_base_locked(oo)
        quote_locked == raw_quote_locked(oo)
        base_free == raw_base_free(oo)
        quote_free == raw_quote_free(oo)
        oo1 == IF base_released > 0
               THEN store_base_free(
                       store_base_locked(oo, saturating_sub(base_locked, base_released)),
                       saturating_add(base_free, base_released))
               ELSE oo
    IN IF quote_released > 0
       THEN store_quote_free(
               store_quote_locked(oo1, saturating_sub(quote_locked, quote_released)),
               saturating_add(quote_free, quote_released))
       ELSE oo1

(* accts: the OpenOrders accounts by key; remaining: the keys the caller passed *)
process_fill_event(ev, accts, remaining, base_lot_size, quote_lot_size) ==
    IF ~(ev.owner \in remaining /\ ev.taker \in remaining)
    THEN [processed |-> FALSE, accts |-> accts]
    ELSE
    LET bm == checked_mul(ev.quantity, base_lot_size)
        base_amount == IF bm = NONE THEN 0 ELSE bm
        qm == calculate_lock_amount("Bid", ev.price, ev.quantity,
                                    base_lot_size, quote_lot_size)
        quote_amount == IF qm = NONE THEN 0 ELSE qm
    IN IF ev.side = "Bid"
       THEN LET a1 == [accts EXCEPT ![ev.taker] =
                          settle_taker_bid(@, base_amount, quote_amount, ev.taker_fee)]
            IN [processed |-> TRUE,
                accts |-> [a1 EXCEPT ![ev.owner] =
                          settle_maker_ask(@, base_amount, quote_amount, ev.maker_rebate)]]
       ELSE LET a1 == [accts EXCEPT ![ev.taker] =
                          settle_taker_ask(@, base_amount, quote_amount, ev.taker_fee)]
            IN [processed |-> TRUE,
                accts |-> [a1 EXCEPT ![ev.owner] =
                          settle_maker_bid(@, base_amount, quote_amount, ev.maker_rebate)]]

(* an event whose account is missing is passed over as if it were settled *)
process_out_event_skips_missing(ev, accts, remaining) ==
    IF ev.owner \notin remaining
    THEN [processed |-> TRUE, accts |-> accts]
    ELSE [processed |-> TRUE,
          accts |-> [accts EXCEPT ![ev.owner] =
                        release_funds(@, ev.base_released, ev.quote_released)]]

process_out_event(ev, accts, remaining) ==
    IF ev.owner \notin remaining
    THEN [processed |-> FALSE, accts |-> accts]
    ELSE [processed |-> TRUE,
          accts |-> [accts EXCEPT ![ev.owner] =
                        release_funds(@, ev.base_released, ev.quote_released)]]

RECURSIVE consume_loop(_, _, _, _)
consume_loop(i, st, m, remaining) ==
    IF i = 0 THEN st
    ELSE
    LET at == read_next_event(st.eq)
    IN IF at = NONE THEN st
       ELSE
       LET ev == st.eq.events[at]
       IN IF ev.tag = EV_FILL
          THEN LET r == process_fill_event(ev, st.accts, remaining,
                                           m.base_lot_size, m.quote_lot_size)
               IN IF r.processed
                  THEN consume_loop(i - 1,
                          [eq |-> pop_event(st.eq), accts |-> r.accts,
                           consumed_count |-> st.consumed_count + 1,
                           log |-> Append(st.log, ev)], m, remaining)
                  ELSE st
          ELSE IF ev.tag = EV_OUT
          THEN LET r == process_out_event(ev, st.accts, remaining)
               IN IF r.processed
                  THEN consume_loop(i - 1,
                          [eq |-> pop_event(st.eq), accts |-> r.accts,
                           consumed_count |-> st.consumed_count + 1,
                           log |-> Append(st.log, ev)], m, remaining)
                  ELSE st
          ELSE consume_loop(i - 1,
                  [st EXCEPT !.eq = pop_event(@),
                             !.consumed_count = @ + 1], m, remaining)

consume_events(m, q, accts, remaining, params) ==
    LET st0 == [eq |-> q, accts |-> accts, consumed_count |-> 0, log |-> <<>>]
    IN IF ~(params.limit > 0) THEN [err |-> "InvalidQuantity", st |-> st0]
       ELSE [err |-> "Ok", st |-> consume_loop(params.limit, st0, m, remaining)]

(***************************************************************************)
(* deposit.rs / withdraw.rs with the token transfers they invoke           *)
(***************************************************************************)
DepositRes(err, oo, w, v) == [err |-> err, oo |-> oo, wallet |-> w, vault |-> v]

deposit_quote(oo, w, v, quote_amount) ==
    IF ~(quote_amount > 0) THEN DepositRes("Ok", oo, w, v)
    ELSE IF w.quote < quote_amount THEN DepositRes("TokenInsufficientFunds", oo, w, v)
    ELSE LET w2 == [w EXCEPT !.quote = @ - quote_amount]
             v2 == [v EXCEPT !.quote = @ + quote_amount]
             nf == checked_add(oo.quote_free, quote_amount)
         IN IF nf = NONE THEN DepositRes("BalanceOverflow", oo, w2, v2)
            ELSE DepositRes("Ok", [oo EXCEPT !.quote_free = nf], w2, v2)

deposit(m, oo, w, v, params) ==
    IF ~is_active(m) THEN DepositRes("MarketNotActive", oo, w, v)
    ELSE IF ~(params.base_amount > 0 \/ params.quote_amount > 0)
    THEN DepositRes("InvalidQuantity", oo, w, v)
    ELSE IF ~(params.base_amount > 0) THEN deposit_quote(oo, w, v, params.quote_amount)
    ELSE IF w.base < params.base_amount THEN DepositRes("TokenInsufficientFunds", oo, w, v)
    ELSE LET w2 == [w EXCEPT !.base = @ - params.base_amount]
             v2 == [v EXCEPT !.base = @ + params.base_amount]
             nf == checked_add(oo.base_free, params.base_amount)
         IN IF nf = NONE THEN DepositRes("BalanceOverflow", oo, w2, v2)
            ELSE deposit_quote([oo EXCEPT !.base_free = nf], w2, v2, params.quote_amount)

withdraw_quote(oo, w, v, quote_amount) ==
    IF ~(quote_amount > 0) THEN DepositRes("Ok", oo, w, v)
    ELSE IF ~(oo.quote_free >= quote_amount) THEN DepositRes("InsufficientFunds", oo, w, v)
    ELSE IF v.quote < quote_amount THEN DepositRes("TokenInsufficientFunds", oo, w, v)
    ELSE DepositRes("Ok", [oo EXCEPT !.quote_free = @ - quote_amount],
                    [w EXCEPT !.quote = @ + quote_amount],
                    [v EXCEPT !.quote = @ - quote_amount])

withdraw(m, oo, w, v, params) ==
    IF ~(params.base_amount > 0 \/ params.quote_amount > 0)
    THEN DepositRes("InvalidQuantity", oo, w, v)
    ELSE IF ~(params.base_amount > 0) THEN withdraw_quote(oo, w, v, params.quote_amount)
    ELSE IF ~(oo.base_free >= params.base_amount) THEN DepositRes("InsufficientFunds", oo, w, v)
    ELSE IF v.base < params.base_amount THEN DepositRes("TokenInsufficientFunds", oo, w, v)
    ELSE withdraw_quote([oo EXCEPT !.base_free = @ - params.base_amount],
                        [w EXCEPT !.base = @ + params.base_amount],
                        [v EXCEPT !.base = @ - params.base_amount],
                        params.quote_amount)

(***************************************************************************)
(* State machine                                                           *)
(***************************************************************************)
NewOpenOrders(a) ==
    [owner |-> OwnerOf[a], delegate |-> DelegateOf[a],
     base_locked |-> 0, quote_locked |-> 0, base_free |-> 0, quote_free |-> 0,
     referrer_rebates |-> 0,
     num_orders |-> 0, orders |-> [i \in SlotIdx |-> EmptySlot]]

(* oo1's owner holds both tokens, oo2's owner (a buyer) holds quote tokens only *)
InitialWallet(a) == [base |-> IF a = "oo1" THEN Supply ELSE 0, quote |-> Supply]

(* the off-chain indexer: the book builder's books per market with the last
   seq each market's book was seen with, the Geyser listener with the delays
   it has slept, and the mpsc channel to the consumer with the ids send_update
   has acknowledged, the calls that found it full and what the receiver got *)
EmptyMap == [k \in {} |-> 0]
NewListener ==
    [pc |-> "new", max_reconnect_attempts |-> 0, reconnect_delay_ms |-> 0,
     reconnect_attempts |-> 0, connection_state |-> "Disconnected",
     reconnect_count |-> 0, updates_dropped |-> 0, result |-> "none",
     send_pc |-> "idle", pending |-> 0, delays |-> <<>>]
NewChannel ==
    [buffer |-> <<>>, closed |-> FALSE, next_id |-> 1, acked |-> {},
     found_full |-> 0, received |-> <<>>]
NewIndexer ==
    [books |-> EmptyMap, seq_seen |-> EmptyMap, listener |-> NewListener,
     channel |-> NewChannel]

NoRet == [op |-> "none", err |-> "Ok"]

Init ==
    /\ market \in [status : {"Active"}, seq_num : {0},
                    base_lot_size : BaseLotSizes, quote_lot_size : QuoteLotSizes,
                    tick_size : TickSizes, min_order_size : MinOrderSizes]
    /\ oos = [a \in Accounts |-> NewOpenOrders(a)]
    /\ bids = EmptyBook
    /\ asks = EmptyBook
    /\ eq = EmptyQueue
    /\ wallet = [a \in Accounts |-> InitialWallet(a)]
    /\ vault = [base |-> 0, quote |-> 0]
    /\ placed = {}
    /\ released = <<>>
    /\ settled = <<>>
    /\ enqueued = <<>>
    /\ dequeued = <<>>
    /\ indexer = NewIndexer
    /\ ret = NoRet

(* an instruction whose writes stay although it returned an error *)
committed_always(err, before, after) == after

(* an instruction is atomic: what it wrote is kept only when it returns Ok *)
committed(err, before, after) == IF err = "Ok" THEN after ELSE before

(* count one more release for every order id in S *)
Bump(f, S) ==
    [id \in DOMAIN f \cup S |->
        (IF id \in DOMAIN f THEN f[id] ELSE 0) + (IF id \in S THEN 1 ELSE 0)]

Deposit ==
    \E a \in Accounts, b \in BaseAmounts, q \in QuoteAmounts :
      \E r \in {deposit(market, oos[a], wallet[a], vault,
                       [base_amount |-> b, quote_amount |-> q])} :
         /\ oos' = [oos EXCEPT ![a] = committed(r.err, @, r.oo)]
         /\ wallet' = [wallet EXCEPT ![a] = committed(r.err, @, r.wallet)]
         /\ vault' = committed(r.err, vault, r.vault)
         /\ UNCHANGED <<market, bids, asks, eq, placed, released, settled, ret, enqueued, dequeued, indexer>>

Withdraw ==
    \E a \in Accounts, b \in BaseAmounts, q \in QuoteAmounts :
      \E r \in {withdraw(market, oos[a], wallet[a], vault,
                        [base_amount |-> b, quote_amount |-> q])} :
         /\ oos' = [oos EXCEPT ![a] = committed(r.err, @, r.oo)]
         /\ wallet' = [wallet EXCEPT ![a] = committed(r.err, @, r.wallet)]
         /\ vault' = committed(r.err, vault, r.vault)
         /\ UNCHANGED <<market, bids, asks, eq, placed, released, settled, ret, enqueued, dequeued, indexer>>

PlaceOrder ==
    /\ market.seq_num < MaxSeq
    /\ \E a \in Accounts, authority \in Signers, side \in Sides, price \in Prices,
          quantity \in Quantities, order_type \in OrderTypes, cid \in ClientIds :
      LET params == [side |-> side, price |-> price, quantity |-> quantity,
                     order_type |-> order_type, client_order_id |-> cid]
      IN \E r \in {place_order(market, oos[a], a, authority, bids, asks, params)} :
         /\ market' = committed(r.err, market, r.market)
         /\ oos' = [oos EXCEPT ![a] = committed(r.err, @, r.oo)]
         /\ bids' = committed(r.err, bids, r.bids)
         /\ asks' = committed(r.err, asks, r.asks)
         /\ placed' = IF r.err = "Ok"
                       THEN placed \cup {[order_id |-> r.order_id, acct |-> a,
                                          side |-> side, price |-> price,
                                          quantity |-> quantity,
                                          order_type |-> order_type,
                                          lock |-> calculate_lock_amount(side, price,
                                                      quantity, market.base_lot_size,
                                                      market.quote_lot_size)]}
                       ELSE placed
         /\ UNCHANGED <<eq, wallet, vault, released, settled, ret, enqueued, dequeued, indexer>>

(* order ids a caller can name: those in its slots and those stored in the books *)
KnownIds(a) ==
    {oos[a].orders[i].order_id : i \in SlotIdx}
      \cup {bids.nodes[i].key : i \in NodeIdx} \cup {asks.nodes[i].key : i \in NodeIdx}

Moved(before, after) ==
    <<before.base_locked - after.base_locked, before.quote_locked - after.quote_locked>>

CancelOrder ==
    \E a \in Accounts, authority \in Signers, side \in Sides :
     \E id \in KnownIds(a) :
      \E r \in {cancel_order(market, oos[a], a, authority, bids, asks, eq,
                            [order_id |-> id, side |-> side])} :
      LET ok == r.err = "Ok"
      IN /\ oos' = [oos EXCEPT ![a] = committed(r.err, @, r.oo)]
         /\ bids' = committed(r.err, bids, r.bids)
         /\ asks' = committed(r.err, asks, r.asks)
         /\ eq' = committed(r.err, eq, r.eq)
         /\ placed' = IF ok THEN {o \in placed : o.order_id # id} ELSE placed
         /\ released' = IF ok /\ Moved(oos[a], r.oo) # <<0, 0>>
                         THEN Bump(released, {id}) ELSE released
         /\ UNCHANGED <<market, wallet, vault, settled, ret, enqueued, dequeued, indexer>>

CancelAllOrders ==
    \E a \in Accounts, authority \in Signers, filter \in Sides \cup {"None"},
       limit \in 0 .. MAX_ORDERS :
      \E r \in {cancel_all_orders(market, oos[a], a, authority, bids, asks, eq,
                                 [side |-> filter, limit |-> limit])} :
      LET ok == r.err = "Ok"
          ids == {r.st.log[i].order_id : i \in 1 .. Len(r.st.log)}
          paid == {r.st.log[i].order_id : i \in {j \in 1 .. Len(r.st.log) :
                      r.st.log[j].in_book /\ r.st.log[j].released # <<0, 0>>}}
      IN /\ oos' = [oos EXCEPT ![a] = committed(r.err, @, r.st.oo)]
         /\ bids' = committed(r.err, bids, r.st.bids)
         /\ asks' = committed(r.err, asks, r.st.asks)
         /\ eq' = committed(r.err, eq, r.st.eq)
         /\ placed' = IF ok THEN {o \in placed : o.order_id \notin ids} ELSE placed
         /\ released' = IF ok THEN Bump(released, paid) ELSE released
         /\ UNCHANGED <<market, wallet, vault, settled, ret, enqueued, dequeued, indexer>>

(* the order ids of the events a consume_events call settled *)
Settled(log) == {log[i].order_id : i \in 1 .. Len(log)}

ConsumeEvents ==
    \E remaining \in SUBSET Accounts, limit \in 0 .. EventCap :
      \E r \in {consume_events(market, eq, oos, remaining, [limit |-> limit])} :
      LET ok == r.err = "Ok"
          outs == {r.st.log[i].order_id : i \in {j \in 1 .. Len(r.st.log) :
                      r.st.log[j].tag = EV_OUT
                      /\ <<r.st.log[j].base_released, r.st.log[j].quote_released>>
                            # <<0, 0>>}}
      IN /\ oos' = committed(r.err, oos, r.st.accts)
         /\ eq' = committed(r.err, eq, r.st.eq)
         /\ released' = IF ok THEN Bump(released, outs) ELSE released
         /\ settled' = IF ok THEN Bump(settled, Settled(r.st.log)) ELSE settled
         /\ UNCHANGED <<market, bids, asks, wallet, vault, placed, ret, enqueued, dequeued, indexer>>

Next ==
    \/ Deposit
    \/ Withdraw
    \/ PlaceOrder
    \/ CancelOrder
    \/ CancelAllOrders
    \/ ConsumeEvents

Spec == Init /\ [][Next]_vars

(* place, cancel and cancel-all only, funded by deposit and withdraw *)
NextNoConsume ==
    \/ Deposit
    \/ Withdraw
    \/ PlaceOrder
    \/ CancelOrder
    \/ CancelAllOrders

SpecNoConsume == Init /\ [][NextNoConsume]_vars

(***************************************************************************)
(* place_order applied once to drawn accounts and parameters               *)
(***************************************************************************)
FreeFunds == {0, Supply}
ValidatePrices == {0, 2, 3}
ValidateQuantities == {0, 1, 2, U64_MAX \div 2 + 1}
ValidateTickSizes == {1, 2}
ValidateMinOrderSizes == {1, 2}

RECURSIVE Prefilled(_, _)
(* the accounts after oo1's owner placed n one-lot asks *)
Prefilled(n, s) ==
    IF n = 0 THEN s
    ELSE LET r == place_order(s.market, s.oo, "oo1", OwnerOf["oo1"], s.bids, s.asks,
                              [side |-> "Ask", price |-> 2, quantity |-> 1,
                               order_type |-> "Limit", client_order_id |-> 7])
         IN Prefilled(n - 1, [market |-> r.market, oo |-> r.oo,
                              bids |-> r.bids, asks |-> r.asks])

InitValidate ==
    \E status \in Statuses, at_max \in BOOLEAN, tick \in ValidateTickSizes,
       min \in ValidateMinOrderSizes, full \in BOOLEAN,
       bf \in FreeFunds, qf \in FreeFunds :
      LET m0 == [status |-> "Active", seq_num |-> 0, base_lot_size |-> 2,
                 quote_lot_size |-> 1, tick_size |-> 1, min_order_size |-> 1]
          n == IF full THEN MAX_ORDERS ELSE 0
          s == Prefilled(n, [market |-> m0,
                             oo |-> [NewOpenOrders("oo1") EXCEPT !.base_free = 2 * n],
                             bids |-> EmptyBook, asks |-> EmptyBook])
          oo1 == [s.oo EXCEPT !.base_free = bf, !.quote_free = qf]
      IN /\ market = [s.market EXCEPT !.status = status, !.tick_size = tick,
                                      !.min_order_size = min,
                                      !.seq_num = IF at_max THEN U64_MAX ELSE @]
         /\ oos = [a \in Accounts |-> IF a = "oo1" THEN oo1 ELSE NewOpenOrders(a)]
         /\ bids = s.bids
         /\ asks = s.asks
         /\ eq = EmptyQueue
         /\ wallet = [a \in Accounts |-> [base |-> 0, quote |-> 0]]
         /\ vault = [base |-> oo1.base_locked + oo1.base_free,
                     quote |-> oo1.quote_locked + oo1.quote_free]
         /\ placed = {[order_id |-> s.oo.orders[i].order_id, acct |-> "oo1",
                       side |-> "Ask", price |-> 2, quantity |-> 1,
                       order_type |-> "Limit", lock |-> 2] :
                         i \in {j \in SlotIdx : ~slot_is_empty(s.oo.orders[j])}}
         /\ released = <<>>
    /\ settled = <<>>
    /\ enqueued = <<>>
    /\ dequeued = <<>>
    /\ indexer = NewIndexer
         /\ ret = NoRet

PlaceOrderOnce ==
    /\ ret = NoRet
    /\ \E authority \in Signers, side \in Sides, price \in ValidatePrices,
          quantity \in ValidateQuantities, order_type \in OrderTypes :
      LET a == "oo1"
          params == [side |-> side, price |-> price, quantity |-> quantity,
                     order_type |-> order_type, client_order_id |-> 7]
          r == place_order(market, oos[a], a, authority, bids, asks, params)
      IN /\ market' = committed(r.err, market, r.market)
         /\ oos' = [oos EXCEPT ![a] = committed(r.err, @, r.oo)]
         /\ bids' = committed(r.err, bids, r.bids)
         /\ asks' = committed(r.err, asks, r.asks)
         /\ placed' = IF r.err = "Ok"
                       THEN placed \cup {[order_id |-> r.order_id, acct |-> a,
                                          side |-> side, price |-> price,
                                          quantity |-> quantity,
                                          order_type |-> order_type,
                                          lock |-> calculate_lock_amount(side, price,
                                                      quantity, market.base_lot_size,
                                                      market.quote_lot_size)]}
                       ELSE placed
         /\ ret' = [op |-> "place", err |-> r.err, acct |-> a,
                    authority |-> authority, side |-> side, price |-> price,
                    quantity |-> quantity, order_type |-> order_type]
         /\ UNCHANGED <<eq, wallet, vault, released, settled, enqueued, dequeued, indexer>>

SpecValidate == InitValidate /\ [][PlaceOrderOnce]_vars

(***************************************************************************)
(* A market brought to some state by its users, then one more instruction  *)
(* whose parameters and result are kept in ret                             *)
(***************************************************************************)
MaxSetupSeq == 3
Strangers == {"bob"}

(* status transitions are one-way: Active -> Paused, Active -> Closed,
   Paused -> Closed *)
set_status(m, status) ==
    IF \/ m.status = "Active" /\ status \in {"Paused", "Closed"}
       \/ m.status = "Paused" /\ status = "Closed"
    THEN [err |-> "Ok", m |-> [m EXCEPT !.status = status]]
    ELSE [err |-> "InvalidMarketStatus", m |-> m]

PlaceStep(a, authority, params, traced) ==
    \E r \in {place_order(market, oos[a], a, authority, bids, asks, params)} :
       /\ market' = committed(r.err, market, r.market)
       /\ oos' = [oos EXCEPT ![a] = committed(r.err, @, r.oo)]
       /\ bids' = committed(r.err, bids, r.bids)
       /\ asks' = committed(r.err, asks, r.asks)
       /\ placed' = IF r.err = "Ok"
                     THEN placed \cup {[order_id |-> r.order_id, acct |-> a,
                                        side |-> params.side, price |-> params.price,
                                        quantity |-> params.quantity,
                                        order_type |-> params.order_type,
                                        lock |-> calculate_lock_amount(params.side,
                                                    params.price, params.quantity,
                                                    market.base_lot_size,
                                                    market.quote_lot_size)]}
                     ELSE placed
       /\ ret' = IF traced
                  THEN [op |-> "place", err |-> r.err, acct |-> a,
                        authority |-> authority, side |-> params.side,
                        price |-> params.price, quantity |-> params.quantity,
                        order_type |-> params.order_type]
                  ELSE ret
       /\ UNCHANGED <<eq, wallet, vault, released, settled, enqueued, dequeued, indexer>>

CancelStep(a, authority, params, traced) ==
    \E r \in {cancel_order(market, oos[a], a, authority, bids, asks, eq, params)} :
    LET ok == r.err = "Ok"
    IN /\ oos' = [oos EXCEPT ![a] = committed(r.err, @, r.oo)]
       /\ bids' = committed(r.err, bids, r.bids)
       /\ asks' = committed(r.err, asks, r.asks)
       /\ eq' = committed(r.err, eq, r.eq)
       /\ placed' = IF ok THEN {o \in placed : o.order_id # params.order_id} ELSE placed
       /\ released' = IF ok /\ Moved(oos[a], r.oo) # <<0, 0>>
                       THEN Bump(released, {params.order_id}) ELSE released
       /\ ret' = IF traced
                  THEN [op |-> "cancel", err |-> r.err, acct |-> a,
                        authority |-> authority, order_id |-> params.order_id,
                        side |-> params.side]
                  ELSE ret
       /\ UNCHANGED <<market, wallet, vault, settled, enqueued, dequeued, indexer>>

CancelAllStep(a, authority, params, traced) ==
    \E r \in {cancel_all_orders(market, oos[a], a, authority, bids, asks, eq, params)} :
    LET ok == r.err = "Ok"
        ids == {r.st.log[i].order_id : i \in 1 .. Len(r.st.log)}
        paid == {r.st.log[i].order_id : i \in {j \in 1 .. Len(r.st.log) :
                    r.st.log[j].in_book /\ r.st.log[j].released # <<0, 0>>}}
    IN /\ oos' = [oos EXCEPT ![a] = committed(r.err, @, r.st.oo)]
       /\ bids' = committed(r.err, bids, r.st.bids)
       /\ asks' = committed(r.err, asks, r.st.asks)
       /\ eq' = committed(r.err, eq, r.st.eq)
       /\ placed' = IF ok THEN {o \in placed : o.order_id \notin ids} ELSE placed
       /\ released' = IF ok THEN Bump(released, paid) ELSE released
       /\ ret' = IF traced
                  THEN [op |-> "cancel_all", err |-> r.err, acct |-> a,
                        authority |-> authority, filter |-> params.side,
                        limit |-> params.limit,
                        count |-> IF ok THEN r.st.cancelled_count ELSE 0]
                  ELSE ret
       /\ UNCHANGED <<market, wallet, vault, settled, enqueued, dequeued, indexer>>

ConsumeStep(remaining, params, traced) ==
    \E r \in {consume_events(market, eq, oos, remaining, params)} :
    LET ok == r.err = "Ok"
        outs == {r.st.log[i].order_id : i \in {j \in 1 .. Len(r.st.log) :
                    r.st.log[j].tag = EV_OUT
                    /\ <<r.st.log[j].base_released, r.st.log[j].quote_released>>
                          # <<0, 0>>}}
    IN /\ oos' = committed(r.err, oos, r.st.accts)
       /\ eq' = committed(r.err, eq, r.st.eq)
       /\ released' = IF ok THEN Bump(released, outs) ELSE released
       /\ settled' = IF ok THEN Bump(settled, Settled(r.st.log)) ELSE settled
       /\ ret' = IF traced
                  THEN [op |-> "consume", err |-> r.err, remaining |-> remaining,
                        limit |-> params.limit,
                        count |-> IF ok THEN r.st.consumed_count ELSE 0,
                        events |-> IF ok
                                   THEN [i \in 1 .. Len(r.st.log) |->
                                            r.st.log[i].order_id]
                                   ELSE <<>>]
                  ELSE ret
       /\ UNCHANGED <<market, bids, asks, wallet, vault, placed, enqueued, dequeued, indexer>>

TransferStep(op, a, params, traced) ==
    \E r \in {IF op = "deposit"
             THEN deposit(market, oos[a], wallet[a], vault, params)
             ELSE withdraw(market, oos[a], wallet[a], vault, params)} :
       /\ oos' = [oos EXCEPT ![a] = committed(r.err, @, r.oo)]
       /\ wallet' = [wallet EXCEPT ![a] = committed(r.err, @, r.wallet)]
       /\ vault' = committed(r.err, vault, r.vault)
       /\ ret' = IF traced
                  THEN [op |-> op, err |-> r.err, acct |-> a,
                        base_amount |-> params.base_amount,
                        quote_amount |-> params.quote_amount]
                  ELSE ret
       /\ UNCHANGED <<market, bids, asks, eq, placed, released, settled, enqueued, dequeued, indexer>>

SetupDeposit ==
    /\ ret = NoRet
    /\ \E a \in Accounts :
         TransferStep("deposit", a, [base_amount |-> wallet[a].base,
                                     quote_amount |-> wallet[a].quote], FALSE)

SetupPlace ==
    /\ ret = NoRet
    /\ market.seq_num < MaxSetupSeq
    /\ \E a \in Accounts, side \in Sides :
         PlaceStep(a, OwnerOf[a], [side |-> side, price |-> 2, quantity |-> 1,
                                   order_type |-> "Limit", client_order_id |-> 7],
                   FALSE)

SetupCancel ==
    /\ ret = NoRet
    /\ \E a \in Accounts, i \in SlotIdx :
         /\ ~slot_is_empty(oos[a].orders[i])
         /\ CancelStep(a, OwnerOf[a], [order_id |-> oos[a].orders[i].order_id,
                                       side |-> oos[a].orders[i].side], FALSE)

SetupConsume ==
    /\ ret = NoRet
    /\ eq.count > 0
    /\ ConsumeStep(Accounts, [limit |-> 1], FALSE)

SetStatus ==
    /\ ret = NoRet
    /\ \E status \in Statuses :
         LET r == set_status(market, status)
         IN /\ r.err = "Ok"
            /\ market' = r.m
            /\ UNCHANGED <<oos, bids, asks, eq, wallet, vault, placed, released,
                           settled, ret, enqueued, dequeued, indexer>>

TracedDeposit ==
    /\ ret = NoRet
    /\ \E a \in Accounts, b \in BaseAmounts, q \in QuoteAmounts :
         TransferStep("deposit", a, [base_amount |-> b, quote_amount |-> q], TRUE)

TracedWithdraw ==
    /\ ret = NoRet
    /\ \E a \in Accounts, b \in BaseAmounts, q \in QuoteAmounts :
         TransferStep("withdraw", a, [base_amount |-> b, quote_amount |-> q], TRUE)

TracedPlace ==
    /\ ret = NoRet
    /\ market.seq_num < MaxSetupSeq
    /\ \E a \in Accounts, side \in Sides :
         PlaceStep(a, OwnerOf[a], [side |-> side, price |-> 2, quantity |-> 1,
                                   order_type |-> "Limit", client_order_id |-> 7],
                   TRUE)

TracedCancel ==
    /\ ret = NoRet
    /\ \E a \in Accounts, side \in Sides :
        \E authority \in {OwnerOf[a]} \cup Strangers,
           id \in {oos[a].orders[i].order_id : i \in SlotIdx} :
          CancelStep(a, authority, [order_id |-> id, side |-> side], TRUE)

TracedCancelAll ==
    /\ ret = NoRet
    /\ \E a \in Accounts, filter \in Sides \cup {"None"}, limit \in 0 .. MAX_ORDERS :
          CancelAllStep(a, OwnerOf[a], [side |-> filter, limit |-> limit], TRUE)

TracedConsume ==
    /\ ret = NoRet
    /\ \E remaining \in SUBSET Accounts, limit \in 0 .. EventCap :
          ConsumeStep(remaining, [limit |-> limit], TRUE)

NextTraced ==
    \/ SetupDeposit
    \/ SetupPlace
    \/ SetupCancel
    \/ SetupConsume
    \/ SetStatus
    \/ TracedDeposit
    \/ TracedWithdraw
    \/ TracedPlace
    \/ TracedCancel
    \/ TracedCancelAll
    \/ TracedConsume

SpecTraced == Init /\ [][NextTraced]_vars

(***************************************************************************)
(* consume_events applied to a queue that holds one Fill event.  No code   *)
(* under src/ writes Fill events; the event is the one a match of a resting *)
(* maker order with a crossing taker order emits.                          *)
(***************************************************************************)
FillExtras == {0, 1}

FillEvent_new(taker_side, maker, maker_order_id, taker, price, quantity, taker_fee, maker_rebate) ==
    [taker_side |-> taker_side, maker |-> maker, maker_order_id |-> maker_order_id,
     taker |-> taker, price |-> price, quantity |-> quantity,
     taker_fee |-> taker_fee, maker_rebate |-> maker_rebate]

push_fill_event(q, fill) ==
    IF q.count >= EventCap THEN [err |-> "EventQueueFull", q |-> q]
    ELSE LET tail == (q.head + q.count) % EventCap
         IN [err |-> "Ok",
             q |-> [q EXCEPT !.events[tail] =
                                [@ EXCEPT !.tag = EV_FILL, !.side = fill.taker_side,
                                          !.owner = fill.maker,
                                          !.order_id = fill.maker_order_id,
                                          !.taker = fill.taker,
                                          !.price = fill.price,
                                          !.quantity = fill.quantity,
                                          !.taker_fee = fill.taker_fee,
                                          !.maker_rebate = fill.maker_rebate],
                            !.count = @ + 1,
                            !.seq_num = saturating_add(@, 1)]]

(* oo1 is the maker, oo2 the taker; each holds the lock of its order and
   some free funds beside it *)
InitFill ==
    \E taker_side \in Sides, price \in Prices, quantity \in Quantities,
       e1 \in FillExtras, e2 \in FillExtras :
      LET m0 == [status |-> "Active", seq_num |-> 0, base_lot_size |-> 2,
                 quote_lot_size |-> 1, tick_size |-> 1, min_order_size |-> 1]
          maker_side == IF taker_side = "Bid" THEN "Ask" ELSE "Bid"
          funded(a, side, e) ==
              LET lock == calculate_lock_amount(side, price, quantity,
                                                m0.base_lot_size, m0.quote_lot_size)
              IN [NewOpenOrders(a) EXCEPT
                     !.base_free = IF side = "Ask" THEN lock + e ELSE e,
                     !.quote_free = IF side = "Bid" THEN lock + e ELSE e]
          order(side) == [side |-> side, price |-> price, quantity |-> quantity,
                          order_type |-> "Limit", client_order_id |-> 7]
          r1 == place_order(m0, funded("oo1", maker_side, e1), "oo1", OwnerOf["oo1"],
                            EmptyBook, EmptyBook, order(maker_side))
          r2 == place_order(r1.market, funded("oo2", taker_side, e2), "oo2",
                            OwnerOf["oo2"], r1.bids, r1.asks, order(taker_side))
          fill == FillEvent_new(taker_side, "oo1", r1.order_id, "oo2", price,
                                quantity, 0, 0)
      IN /\ market = r2.market
         /\ oos = [a \in Accounts |-> IF a = "oo1" THEN r1.oo ELSE r2.oo]
         /\ bids = r2.bids
         /\ asks = r2.asks
         /\ eq = push_fill_event(EmptyQueue, fill).q
         /\ wallet = [a \in Accounts |-> [base |-> 0, quote |-> 0]]
         /\ vault = [base |-> r1.oo.base_locked + r1.oo.base_free + r2.oo.base_locked + r2.oo.base_free,
                     quote |-> r1.oo.quote_locked + r1.oo.quote_free
                              + r2.oo.quote_locked + r2.oo.quote_free]
         /\ placed = {}
         /\ released = <<>>
         /\ settled = <<>>
         /\ enqueued = <<>>
         /\ dequeued = <<>>
         /\ indexer = NewIndexer
         /\ ret = NoRet

SpecFill == InitFill /\ [][TracedConsume]_vars

(***************************************************************************)
(* EventQueueHeader: the ring buffer's own push and pop.  The events slice *)
(* has EventCap slots; a pushed event replaces its slot whole and a popped *)
(* slot is left as Event::Empty.  enqueued is every event a push accepted, *)
(* in order; dequeued is every event a pop returned, in order.             *)
(***************************************************************************)
MaxPushes == 5

EventKinds == {EV_FILL, EV_OUT}

is_empty(q) == q.count = 0

is_full_above_capacity(q, capacity) == q.count > capacity
is_full(q, capacity) == q.count >= capacity

tail_from_zero(q, capacity) == q.count % capacity
tail(q, capacity) == (q.head + q.count) % capacity

push(q, event) ==
    LET capacity == EventCap
    IN IF is_full(q, capacity) THEN [some |-> FALSE, seq_num |-> 0, q |-> q]
       ELSE LET q2 == [q EXCEPT !.events[tail(q, capacity)] = event,
                                !.count = saturating_add(@, 1),
                                !.seq_num = saturating_add(@, 1)]
            IN [some |-> TRUE, seq_num |-> q2.seq_num, q |-> q2]

pop(q) ==
    IF is_empty(q) THEN [some |-> FALSE, event |-> ZeroEvent, q |-> q]
    ELSE LET capacity == EventCap
             head_idx == q.head
         IN [some |-> TRUE, event |-> q.events[head_idx],
             q |-> [q EXCEPT !.events[head_idx] = ZeroEvent,
                             !.head = (@ + 1) % capacity,
                             !.count = saturating_sub(@, 1)]]

(* the n-th accepted event carries n as its order id *)
Push ==
    /\ Len(enqueued) < MaxPushes
    /\ \E kind \in EventKinds :
         LET event == [ZeroEvent EXCEPT !.tag = kind,
                                        !.order_id = Len(enqueued) + 1]
             r == push(eq, event)
         IN /\ eq' = r.q
            /\ enqueued' = IF r.some THEN Append(enqueued, event) ELSE enqueued
            /\ ret' = [op |-> "push", err |-> IF r.some THEN "Ok" ELSE "None",
                       seq_num |-> r.seq_num]
    /\ UNCHANGED <<market, oos, bids, asks, wallet, vault, placed, released, settled,
                   dequeued, indexer>>

Pop ==
    LET r == pop(eq)
    IN /\ eq' = r.q
       /\ dequeued' = IF r.some THEN Append(dequeued, r.event) ELSE dequeued
       /\ ret' = [op |-> "pop", err |-> IF r.some THEN "Ok" ELSE "None",
                  seq_num |-> 0]
       /\ UNCHANGED <<market, oos, bids, asks, wallet, vault, placed, released, settled,
                      enqueued, indexer>>

NextQueue == Push \/ Pop

SpecQueue == Init /\ [][NextQueue]_vars

(* the same push and pop without the record of what went through the queue,
   so that seq_num can be driven to the top of its range *)
PushCounted ==
    /\ \E kind \in EventKinds :
         LET r == push(eq, [ZeroEvent EXCEPT !.tag = kind])
         IN /\ eq' = r.q
            /\ ret' = [op |-> "push", err |-> IF r.some THEN "Ok" ELSE "None",
                       seq_num |-> r.seq_num]
    /\ UNCHANGED <<market, oos, bids, asks, wallet, vault, placed, released, settled,
                   enqueued, dequeued, indexer>>

PopCounted ==
    LET r == pop(eq)
    IN /\ eq' = r.q
       /\ ret' = [op |-> "pop", err |-> IF r.some THEN "Ok" ELSE "None",
                  seq_num |-> 0]
       /\ UNCHANGED <<market, oos, bids, asks, wallet, vault, placed, released, settled,
                      enqueued, dequeued, indexer>>

NextSeq == PushCounted \/ PopCounted

SpecSeq == Init /\ [][NextSeq]_vars

(***************************************************************************)
(* One account placing, cancelling and settling bids over and over, which  *)
(* takes the market's seq_num to the top of its range; the placement made  *)
(* there is recorded in ret.                                               *)
(***************************************************************************)
ChurnPlace ==
    /\ ret = NoRet
    /\ PlaceStep("oo1", OwnerOf["oo1"],
                 [side |-> "Bid", price |-> 2, quantity |-> 1,
                  order_type |-> "Limit", client_order_id |-> 7],
                 market.seq_num = U64_MAX)

NextChurn ==
    \/ SetupDeposit
    \/ ChurnPlace
    \/ SetupCancel
    \/ SetupConsume

SpecChurn == Init /\ [][NextChurn]_vars

(***************************************************************************)
(* OrderId as a pure function: two (price, seq_num) pairs of one side are  *)
(* encoded, and the first id is decoded again.                             *)
(***************************************************************************)
OrderIdInputs ==
    [op : {"order_id_inputs"}, err : {"Ok"}, side : Sides,
     price : 0 .. U64_MAX, seq_num : 0 .. U64_MAX,
     price2 : 0 .. U64_MAX, seq_num2 : 0 .. U64_MAX]

DrawOrderIds ==
    /\ ret = NoRet
    /\ ret' \in OrderIdInputs
    /\ UNCHANGED <<market, oos, bids, asks, eq, wallet, vault, placed, released,
                   settled, enqueued, dequeued, indexer>>

EncodeOrderIds ==
    /\ ret.op = "order_id_inputs"
    /\ LET encode(price, seq_num) == IF ret.side = "Bid" THEN new_bid(price, seq_num)
                                     ELSE new_ask(price, seq_num)
           id == encode(ret.price, ret.seq_num)
       IN ret' = [op |-> "order_id", err |-> "Ok", side |-> ret.side,
                  price |-> ret.price, seq_num |-> ret.seq_num,
                  price2 |-> ret.price2, seq_num2 |-> ret.seq_num2,
                  id |-> id, id2 |-> encode(ret.price2, ret.seq_num2),
                  decoded_price |-> order_price(id, ret.side = "Bid"),
                  decoded_seq_num |-> order_seq_num(id)]
    /\ UNCHANGED <<market, oos, bids, asks, eq, wallet, vault, placed, released,
                   settled, enqueued, dequeued, indexer>>

NextOrderId == DrawOrderIds \/ EncodeOrderIds

SpecOrderId == Init /\ [][NextOrderId]_vars

(***************************************************************************)
(* Book builder of the indexer  (indexer/book)                             *)
(* A side of a FullOrderBook is a map from price to PriceLevel; a BTreeMap *)
(* is walked in ascending order of its keys.                               *)
(***************************************************************************)
MaxAggOrders == 2
MaxApplies == 3

AggMarkets == {"mkt1"}
AggPrices == {1, 2}
AggQuantities == {0, 1, U64_MAX}
AggSlots == {1, 2}
ParsedOrders == [price : AggPrices, quantity : AggQuantities]
OrderLists == UNION {[1 .. n -> ParsedOrders] : n \in 0 .. MaxAggOrders}

Put(map, key, value) ==
    [k \in DOMAIN map \cup {key} |-> IF k = key THEN value ELSE map[k]]

RECURSIVE Ascending(_)
Ascending(keys) ==
    IF keys = {} THEN <<>>
    ELSE LET lo == CHOOSE x \in keys : \A y \in keys : x <= y
         IN <<lo>> \o Ascending(keys \ {lo})

FullOrderBook_new(m) ==
    [market |-> m, bids |-> EmptyMap, asks |-> EmptyMap, last_slot |-> 0, seq |-> 0]

BookChange_new(side, price, new_quantity, order_count) ==
    [side |-> side, price |-> price, new_quantity |-> new_quantity,
     order_count |-> order_count]

is_removal(change) == change.new_quantity = 0

RECURSIVE build_levels(_, _, _)
build_levels(orders, i, new_levels) ==
    IF i > Len(orders) THEN new_levels
    ELSE LET order == orders[i]
             entry == IF order.price \in DOMAIN new_levels
                      THEN new_levels[order.price]
                      ELSE [price |-> order.price, quantity |-> 0, order_count |-> 0]
         IN build_levels(orders, i + 1,
                Put(new_levels, order.price,
                    [entry EXCEPT !.quantity = saturating_add(@, order.quantity),
                                  !.order_count = @ + 1]))

RECURSIVE removed_and_modified(_, _, _, _)
removed_and_modified(side, prices, old_levels, new_levels) ==
    IF prices = <<>> THEN <<>>
    ELSE LET price == Head(prices)
             old_level == old_levels[price]
             here == IF price \in DOMAIN new_levels
                     THEN IF \/ old_level.quantity # new_levels[price].quantity
                             \/ old_level.order_count # new_levels[price].order_count
                          THEN <<BookChange_new(side, price, new_levels[price].quantity,
                                                new_levels[price].order_count)>>
                          ELSE <<>>
                     ELSE <<BookChange_new(side, price, 0, 0)>>
         IN here \o removed_and_modified(side, Tail(prices), old_levels, new_levels)

RECURSIVE added(_, _, _, _)
added(side, prices, old_levels, new_levels) ==
    IF prices = <<>> THEN <<>>
    ELSE LET price == Head(prices)
             here == IF price \notin DOMAIN old_levels
                     THEN <<BookChange_new(side, price, new_levels[price].quantity,
                                           new_levels[price].order_count)>>
                     ELSE <<>>
         IN here \o added(side, Tail(prices), old_levels, new_levels)

apply_orders(book, side, orders, slot) ==
    LET new_levels == build_levels(orders, 1, EmptyMap)
        old_levels == IF side = "Bid" THEN book.bids ELSE book.asks
    IN [changes |-> removed_and_modified(side, Ascending(DOMAIN old_levels),
                                         old_levels, new_levels)
                    \o added(side, Ascending(DOMAIN new_levels), old_levels, new_levels),
        book |-> [book EXCEPT !.bids = IF side = "Bid" THEN new_levels ELSE @,
                              !.asks = IF side = "Ask" THEN new_levels ELSE @,
                              !.last_slot = slot,
                              !.seq = saturating_add(@, 1)]]

apply_update(books, m, side, orders, slot) ==
    LET book == IF m \in DOMAIN books THEN books[m] ELSE FullOrderBook_new(m)
        r == apply_orders(book, side, orders, slot)
    IN [changes |-> r.changes, books |-> Put(books, m, r.book)]

remove_market(books, m) == [k \in DOMAIN books \ {m} |-> books[k]]

SeqOf(books, m) == IF m \in DOMAIN books THEN books[m].seq ELSE 0

ApplyUpdate ==
    /\ \E m \in AggMarkets, side \in Sides, orders \in OrderLists, slot \in AggSlots :
         /\ SeqOf(indexer.books, m) < MaxApplies
         /\ \E r \in {apply_update(indexer.books, m, side, orders, slot)} :
               /\ indexer' = [indexer EXCEPT
                                 !.books = r.books,
                                 !.seq_seen = Put(@, m, r.books[m].seq)]
               /\ ret' = [op |-> "apply_update", err |-> "Ok", market |-> m,
                          side |-> side, orders |-> orders, slot |-> slot,
                          changes |-> r.changes]
    /\ UNCHANGED <<market, oos, bids, asks, eq, wallet, vault, placed, released,
                   settled, enqueued, dequeued>>

RemoveMarket ==
    /\ \E m \in AggMarkets :
         /\ indexer' = [indexer EXCEPT !.books = remove_market(@, m)]
         /\ ret' = [op |-> "remove_market", err |-> "Ok", market |-> m]
    /\ UNCHANGED <<market, oos, bids, asks, eq, wallet, vault, placed, released,
                   settled, enqueued, dequeued>>

NextAgg == ApplyUpdate \/ RemoveMarket

SpecAgg == Init /\ [][NextAgg]_vars

(***************************************************************************)
(* Geyser listener of the indexer  (indexer/geyser/listener.rs)            *)
(* run() is one task: connect, stream until the stream fails, decide       *)
(* whether to reconnect, sleep, and start over.  The stream fails when the *)
(* channel's receiver is gone.  send_update is called on the same listener *)
(* and writes to a bounded tokio mpsc channel: try_send fails with Closed  *)
(* when the receiver is dropped, with Full when the buffer is at capacity; *)
(* send waits for room and fails when the receiver is dropped.             *)
(***************************************************************************)
ChannelCap == 2
MaxUpdates == 3
MaxReconnects == 4

MAX_BACKOFF_MS == 60000
MAX_BACKOFF_EXP == 6
MaxAttemptsConfigs == {0, 1, 2}
DelayConfigs == {1000, 40000}

should_reconnect(l) ==
    IF l.max_reconnect_attempts = 0 THEN [ok |-> TRUE, l |-> l]
    ELSE [ok |-> l.reconnect_attempts < l.max_reconnect_attempts,
          l |-> [l EXCEPT !.reconnect_attempts = @ + 1]]

(* the products stay far below u64::MAX for the configured delays, so the
   saturating operations are the plain ones *)
calculate_backoff_delay(l) ==
    LET attempts == l.reconnect_attempts
        base_delay == l.reconnect_delay_ms
        multiplier == 2 ^ Min(attempts, MAX_BACKOFF_EXP)
    IN Min(base_delay * multiplier, MAX_BACKOFF_MS)

try_send(ch, update) ==
    IF ch.closed THEN [res |-> "Closed", ch |-> ch]
    ELSE IF Len(ch.buffer) >= ChannelCap THEN [res |-> "Full", ch |-> ch]
    ELSE [res |-> "Ok", ch |-> [ch EXCEPT !.buffer = Append(@, update)]]

ListenerNew ==
    /\ indexer.listener.pc = "new"
    /\ \E n \in MaxAttemptsConfigs, d \in DelayConfigs :
         indexer' = [indexer EXCEPT !.listener.pc = "loop",
                                    !.listener.max_reconnect_attempts = n,
                                    !.listener.reconnect_delay_ms = d]
    /\ ret' = [op |-> "new", err |-> "Ok"]
    /\ UNCHANGED <<market, oos, bids, asks, eq, wallet, vault, placed, released,
                   settled, enqueued, dequeued>>

(* top of the loop and the entry of connect_and_subscribe *)
RunConnect ==
    /\ indexer.listener.pc \in {"loop", "sleep"}
    /\ indexer' = [indexer EXCEPT !.listener.pc = "stream",
                                  !.listener.reconnect_attempts = 0,
                                  !.listener.connection_state = "Connected"]
    /\ ret' = [op |-> "connect", err |-> "Ok"]
    /\ UNCHANGED <<market, oos, bids, asks, eq, wallet, vault, placed, released,
                   settled, enqueued, dequeued>>

(* process_mock_stream returns ChannelClosed and run() handles the error; the
   reconnect metric and the record of the delays slept stop growing at
   MaxReconnects, the loop itself goes on *)
RunStreamError ==
    /\ indexer.listener.pc = "stream"
    /\ indexer.channel.closed
    /\ LET sr == should_reconnect(indexer.listener)
       IN IF ~sr.ok
          THEN /\ indexer' = [indexer EXCEPT
                                 !.listener = [sr.l EXCEPT
                                     !.connection_state = "Failed",
                                     !.result = "MaxReconnectExceeded",
                                     !.pc = "done"]]
               /\ ret' = [op |-> "run", err |-> "MaxReconnectExceeded"]
          ELSE /\ indexer' = [indexer EXCEPT
                                 !.listener = [sr.l EXCEPT
                                     !.connection_state = "Reconnecting",
                                     !.reconnect_count = Min(@ + 1, MaxReconnects),
                                     !.delays = IF Len(@) < MaxReconnects
                                                THEN Append(@, calculate_backoff_delay(sr.l))
                                                ELSE @,
                                     !.pc = "sleep"]]
               /\ ret' = [op |-> "reconnect", err |-> "Ok"]
    /\ UNCHANGED <<market, oos, bids, asks, eq, wallet, vault, placed, released,
                   settled, enqueued, dequeued>>

(* send_update up to the outcome of try_send; on Full the call goes on to
   the blocking send *)
send_update_gives_up_when_full(l, ch, update) ==
    LET r == try_send(ch, update)
    IN CASE r.res = "Ok" -> [res |-> "Ok", l |-> l, ch |-> r.ch]
         [] r.res = "Full" ->
              [res |-> "Ok", l |-> [l EXCEPT !.updates_dropped = @ + 1], ch |-> r.ch]
         [] r.res = "Closed" -> [res |-> "ChannelClosed", l |-> l, ch |-> r.ch]
send_update(l, ch, update) ==
    LET r == try_send(ch, update)
    IN CASE r.res = "Ok" -> [res |-> "Ok", l |-> l, ch |-> r.ch]
         [] r.res = "Full" ->
              [res |-> "Blocked",
               l |-> [l EXCEPT !.updates_dropped = @ + 1, !.send_pc = "blocked",
                               !.pending = update],
               ch |-> r.ch]
         [] r.res = "Closed" -> [res |-> "ChannelClosed", l |-> l, ch |-> r.ch]

SendUpdate ==
    /\ indexer.listener.pc # "new"
    /\ indexer.listener.send_pc = "idle"
    /\ indexer.channel.next_id <= MaxUpdates
    /\ LET update == indexer.channel.next_id
           full == ~indexer.channel.closed /\ Len(indexer.channel.buffer) >= ChannelCap
           r == send_update(indexer.listener, indexer.channel, update)
       IN /\ indexer' = [indexer EXCEPT
                            !.listener = r.l,
                            !.channel = [r.ch EXCEPT
                                !.next_id = @ + 1,
                                !.found_full = IF full THEN @ + 1 ELSE @,
                                !.acked = IF r.res = "Ok" THEN @ \cup {update} ELSE @]]
          /\ ret' = [op |-> "send_update", err |-> r.res, update |-> update]
    /\ UNCHANGED <<market, oos, bids, asks, eq, wallet, vault, placed, released,
                   settled, enqueued, dequeued>>

(* the blocking send of send_update completes *)
SendWake ==
    /\ indexer.listener.send_pc = "blocked"
    /\ LET update == indexer.listener.pending
           ch == indexer.channel
       IN \/ /\ ch.closed
             /\ indexer' = [indexer EXCEPT !.listener.send_pc = "idle"]
             /\ ret' = [op |-> "send_update", err |-> "ChannelClosed",
                        update |-> update]
          \/ /\ ~ch.closed
             /\ Len(ch.buffer) < ChannelCap
             /\ indexer' = [indexer EXCEPT
                               !.listener.send_pc = "idle",
                               !.channel.buffer = Append(@, update),
                               !.channel.acked = @ \cup {update}]
             /\ ret' = [op |-> "send_update", err |-> "Ok", update |-> update]
    /\ UNCHANGED <<market, oos, bids, asks, eq, wallet, vault, placed, released,
                   settled, enqueued, dequeued>>

(* the consumer's rx.recv() *)
Recv ==
    /\ ~indexer.channel.closed
    /\ indexer.channel.buffer # <<>>
    /\ indexer' = [indexer EXCEPT !.channel.buffer = Tail(@),
                                  !.channel.received = Append(@, Head(indexer.channel.buffer))]
    /\ ret' = [op |-> "recv", err |-> "Ok"]
    /\ UNCHANGED <<market, oos, bids, asks, eq, wallet, vault, placed, released,
                   settled, enqueued, dequeued>>

(* drop(rx): the channel closes and what it still holds is discarded *)
DropReceiver ==
    /\ indexer.listener.pc # "new"
    /\ ~indexer.channel.closed
    /\ indexer' = [indexer EXCEPT !.channel.closed = TRUE,
                                  !.channel.buffer = <<>>]
    /\ ret' = [op |-> "drop_receiver", err |-> "Ok"]
    /\ UNCHANGED <<market, oos, bids, asks, eq, wallet, vault, placed, released,
                   settled, enqueued, dequeued>>

NextListener ==
    \/ ListenerNew
    \/ RunConnect
    \/ RunStreamError
    \/ SendUpdate
    \/ SendWake
    \/ Recv
    \/ DropReceiver

SpecListener == Init /\ [][NextListener]_vars

(* the run task is polled again whenever it can go on: its sleeps end and
   its connect and stream steps are taken *)
SpecListenerFair ==
    Init /\ [][NextListener]_vars /\ WF_vars(RunConnect) /\ WF_vars(RunStreamError)

(***************************************************************************)
(* Properties                                                              *)
(***************************************************************************)
BaseTotal(oo) == oo.base_locked + oo.base_free
QuoteTotal(oo) == oo.quote_locked + oo.quote_free

(* o, an incoming order, crosses the resting order m of the opposite side *)
Crossing(o, m) ==
    /\ o.side # m.side
    /\ o.side = "Bid" => o.price >= m.price
    /\ o.side = "Ask" => o.price <= m.price

RECURSIVE LockSum(_)
(* <<base, quote>> locked at placement by the orders of S *)
LockSum(S) ==
    IF S = {} THEN <<0, 0>>
    ELSE LET o == CHOOSE x \in S : TRUE
             rest == LockSum(S \ {o})
         IN IF o.side = "Ask" THEN <<rest[1] + o.lock, rest[2]>>
            ELSE <<rest[1], rest[2] + o.lock>>

RestsOnBook(id, bk_bids, bk_asks) ==
    \E i \in NodeIdx :
       \/ bk_bids.nodes[i].tag = TAG_LEAF /\ bk_bids.nodes[i].key = id
       \/ bk_asks.nodes[i].tag = TAG_LEAF /\ bk_asks.nodes[i].key = id

(* the slots of the event queue that a step wrote as Fill events *)
NewFills(q, q2) ==
    {i \in EvIdx : q2.events[i] # q.events[i] /\ q2.events[i].tag = EV_FILL}

(* C1: a step of place_order, cancel_order or cancel_all_orders (any step that
   moves no tokens between a wallet and the vault) leaves every account's
   base_locked + base_free and quote_locked + quote_free as they were *)
C1_LockedPlusFreeKept ==
    [][wallet' = wallet =>
          \A a \in Accounts : /\ BaseTotal(oos'[a]) = BaseTotal(oos[a])
                              /\ QuoteTotal(oos'[a]) = QuoteTotal(oos[a])]_vars

(* one order rests with its funds locked after another was cancelled and paid back *)
C1_Witness ==
    /\ DOMAIN released # {}
    /\ \E o \in placed : oos[o.acct].base_locked + oos[o.acct].quote_locked > 0

(* C2: with no fill, every account's locked + free equals what its owner
   deposited minus what was withdrawn (the tokens that left the wallet) *)
C2_LockedPlusFreeIsNetDeposit ==
    \A a \in Accounts :
       /\ BaseTotal(oos[a]) = InitialWallet(a).base - wallet[a].base
       /\ QuoteTotal(oos[a]) = InitialWallet(a).quote - wallet[a].quote

(* C3: no order's lock is released a second time, whether by cancel_order,
   cancel_all_orders or consume_events *)
C3_ReleasedAtMostOnce ==
    \A id \in DOMAIN released : released[id] <= 1

(* C4: when cancel_order or cancel_all_orders removes orders of an account, it
   moves from locked to free exactly what their placement locked *)
C4_CancelMovesTheLock ==
    [][\A a \in Accounts :
          LET gone == {o \in placed \ placed' : o.acct = a}
          IN gone # {} =>
               /\ Moved(oos[a], oos'[a]) = LockSum(gone)
               /\ <<oos'[a].base_free - oos[a].base_free,
                    oos'[a].quote_free - oos[a].quote_free>> = LockSum(gone)]_vars

(* C5: an accepted Limit order whose price crosses a resting order of the
   opposite side writes a Fill event in the same instruction *)
C5_CrossingLimitFills ==
    [][\A o \in placed' \ placed :
          (o.order_type = "Limit" /\ \E m \in placed : Crossing(o, m))
             => NewFills(eq, eq') # {}]_vars

(* C6: a PostOnly order whose price crosses a resting order of the opposite
   side is never accepted *)
C6_CrossingPostOnlyRejected ==
    [][\A o \in placed' \ placed :
          ~(o.order_type = "PostOnly" /\ \E m \in placed : Crossing(o, m))]_vars

(* C7: an accepted FillOrKill order is matched in full within the instruction:
   Fill events are written and the order does not rest on the book *)
C7_FillOrKillAllOrNothing ==
    [][\A o \in placed' \ placed :
          o.order_type = "FillOrKill"
             => NewFills(eq, eq') # {} /\ ~RestsOnBook(o.order_id, bids', asks')]_vars

(* C8: an ImmediateOrCancel order leaves no leaf on the book, and with nothing
   to match against its funds are free again when the instruction ends *)
C8_ImmediateOrCancelNeverRests ==
    [][\A o \in placed' \ placed :
          o.order_type = "ImmediateOrCancel"
             => /\ ~RestsOnBook(o.order_id, bids', asks')
                /\ (~\E m \in placed : Crossing(o, m))
                      => /\ oos'[o.acct].base_free = oos[o.acct].base_free
                         /\ oos'[o.acct].quote_free = oos[o.acct].quote_free]_vars

(* C9: a place_order that returns an error leaves the market, the OpenOrders
   accounts, both book sides and the event queue as they were *)
C9_FailedPlaceChangesNothing ==
    [][(ret'.op = "place" /\ ret'.err # "Ok")
          => UNCHANGED <<market, oos, bids, asks, eq>>]_vars

(* place_order failed after the handler had locked the funds: no slot was free *)
C9_Witness ==
    ret.op = "place" /\ ret.err = "TooManyOrders"

(* the checks of place_order on request rq: <<fails, errors it reports>> *)
MarketCheck(m) == <<m.status # "Active", {"MarketNotActive"}>>
SignerCheck(oo, rq) ==
    <<rq.authority \notin ({oo.owner} \cup ({oo.delegate} \ {ZERO_KEY})), {"Unauthorized"}>>
PriceCheck(m, rq) ==
    <<~(rq.price > 0 /\ m.tick_size > 0 /\ rq.price % m.tick_size = 0),
      {"InvalidPrice", "InvalidTickSize"}>>
QuantityCheck(m, rq) ==
    <<~(rq.quantity > 0 /\ rq.quantity >= m.min_order_size),
      {"InvalidQuantity", "OrderTooSmall"}>>
LockFitsCheck(m, rq) ==
    <<IF rq.side = "Ask" THEN rq.quantity * m.base_lot_size > U64_MAX
      ELSE rq.quantity * rq.price * m.quote_lot_size > U64_MAX,
      {"ArithmeticOverflow"}>>
FundsCheck(m, oo, rq) ==
    <<IF rq.side = "Ask" THEN oo.base_free < rq.quantity * m.base_lot_size
      ELSE oo.quote_free
             < (rq.quantity * rq.price * m.quote_lot_size) \div m.base_lot_size,
      {"InsufficientFunds"}>>
SlotCheck(oo) ==
    <<\A i \in SlotIdx : oo.orders[i].order_id # EMPTY_ORDER_ID, {"TooManyOrders"}>>
SeqCheck(m) == <<m.seq_num = U64_MAX, {"ArithmeticOverflow"}>>

(* the error reported is one of the first failing check of cs; none fails: no
   error of any of them is reported *)
ReportsFirstFailing(cs, err) ==
    LET failing == {k \in 1 .. Len(cs) : cs[k][1]}
    IN IF failing = {}
       THEN \A k \in 1 .. Len(cs) : err \notin cs[k][2]
       ELSE err \in cs[CHOOSE k \in failing : \A j \in failing : k <= j][2]

(* C10 as stated: the error is that of the first failing check in the order
   market Active, signer authorized, price, quantity, free slot, next seq_num *)
C10_ListedOrder ==
    [][ret'.op = "place" =>
          LET oo == oos[ret'.acct]
              cs == <<MarketCheck(market), SignerCheck(oo, ret'), PriceCheck(market, ret'),
                      QuantityCheck(market, ret'), SlotCheck(oo), SeqCheck(market)>>
              failing == {k \in 1 .. Len(cs) : cs[k][1]}
          IN failing # {} => ReportsFirstFailing(cs, ret'.err)]_vars

(* C10: the error is that of the first failing check in the order market
   Active, signer authorized, price, quantity, lock amount fits u64, free
   funds cover the lock, free slot, next seq_num *)
C10_HandlerOrder ==
    [][ret'.op = "place" =>
          LET oo == oos[ret'.acct]
          IN ReportsFirstFailing(
                <<MarketCheck(market), SignerCheck(oo, ret'), PriceCheck(market, ret'),
                  QuantityCheck(market, ret'), LockFitsCheck(market, ret'),
                  FundsCheck(market, oo, ret'), SlotCheck(oo), SeqCheck(market)>>,
                ret'.err)]_vars

(* no slot is free and the funds do not cover the lock: InsufficientFunds *)
C10_Witness ==
    /\ ret.op = "place" /\ ret.err = "InsufficientFunds"
    /\ \A i \in SlotIdx : oos[ret.acct].orders[i].order_id # EMPTY_ORDER_ID

StatusErrors == {"MarketNotActive", "MarketClosed"}

(* what withdraw needs to return Ok, whatever the market status *)
WithdrawCovered(oo, v, rq) ==
    /\ rq.base_amount > 0 \/ rq.quote_amount > 0
    /\ oo.base_free >= rq.base_amount /\ v.base >= rq.base_amount
    /\ oo.quote_free >= rq.quote_amount /\ v.quote >= rq.quote_amount

(* C11: place_order and deposit return Ok only on an Active market;
   cancel_order and cancel_all_orders are refused on a Closed market and never
   refused for the status on an Active or Paused one; withdraw and
   consume_events return Ok in every status whenever their other conditions
   hold *)
C11_StatusGates ==
    [][/\ (ret'.op \in {"place", "deposit"} /\ ret'.err = "Ok")
             => market.status = "Active"
       /\ ret'.op \in {"cancel", "cancel_all"}
             => /\ market.status = "Closed" => ret'.err # "Ok"
                /\ market.status \in {"Active", "Paused"}
                      => ret'.err \notin StatusErrors
       /\ ret'.op = "withdraw"
             => (ret'.err = "Ok" <=> WithdrawCovered(oos[ret'.acct], vault, ret'))
       /\ ret'.op = "consume" => (ret'.err = "Ok" <=> ret'.limit > 0)]_vars

(* an order was cancelled on a Paused market *)
C11_Witness ==
    ret.op = "cancel" /\ ret.err = "Ok" /\ market.status = "Paused"

(* the cancel of order id on the given side by authority has all it needs *)
Cancellable(m, oo, authority, id, side) ==
    /\ id # EMPTY_ORDER_ID
    /\ m.status # "Closed"
    /\ authority \in {oo.owner} \cup ({oo.delegate} \ {ZERO_KEY})
    /\ \E i \in SlotIdx : oo.orders[i].order_id = id /\ oo.orders[i].side = side
    /\ RestsOnBook(id, IF side = "Bid" THEN bids ELSE EmptyBook,
                       IF side = "Ask" THEN asks ELSE EmptyBook)

(* C12: on a full event queue, cancel_order of a resting order still returns
   Ok: the leaf leaves the book, the slot is cleared and the lock goes back to
   the free balance *)
C12_CancelSucceedsOnFullQueue ==
    [][(/\ ret'.op = "cancel"
        /\ eq.count = EventCap
        /\ Cancellable(market, oos[ret'.acct], ret'.authority, ret'.order_id, ret'.side))
          => /\ ret'.err = "Ok"
             /\ ~RestsOnBook(ret'.order_id, bids', asks')
             /\ \A i \in SlotIdx : oos'[ret'.acct].orders[i].order_id # ret'.order_id
             /\ BaseTotal(oos'[ret'.acct]) = BaseTotal(oos[ret'.acct])
             /\ oos'[ret'.acct].base_free + oos'[ret'.acct].quote_free
                  > oos[ret'.acct].base_free + oos[ret'.acct].quote_free]_vars

(* the slots of oo that hold an open order matching the side filter *)
MatchingSlots(oo, filter) ==
    {i \in SlotIdx : oo.orders[i].order_id # EMPTY_ORDER_ID
                       /\ (filter = "None" \/ oo.orders[i].side = filter)}

(* C13: cancel_all_orders with filter f and limit L > 0 returns min(L, number
   of open orders matching f), clears that many slots, all of them matching f,
   and leaves every other slot as it was *)
C13_CancelAllCount ==
    [][(ret'.op = "cancel_all" /\ ret'.err = "Ok") =>
          LET oo == oos[ret'.acct]
              matching == MatchingSlots(oo, ret'.filter)
              gone == {i \in SlotIdx : oo.orders[i].order_id # EMPTY_ORDER_ID
                                         /\ oos'[ret'.acct].orders[i].order_id
                                               = EMPTY_ORDER_ID}
          IN /\ ret'.limit > 0
             /\ ret'.count = Min(ret'.limit, Cardinality(matching))
             /\ Cardinality(gone) = ret'.count
             /\ gone \subseteq matching
             /\ \A i \in SlotIdx \ gone :
                   oos'[ret'.acct].orders[i] = oo.orders[i]]_vars

(* the j-th queued event, counted from the head (j = 0) *)
LiveAt(q, j) == q.events[(q.head + j) % EventCap]

(* how many events from the head on have the account they need in remaining *)
Supplied(q, remaining) ==
    IF \A j \in 0 .. (q.count - 1) : LiveAt(q, j).owner \in remaining
    THEN q.count
    ELSE CHOOSE k \in 0 .. (q.count - 1) :
            /\ LiveAt(q, k).owner \notin remaining
            /\ \A j \in 0 .. (k - 1) : LiveAt(q, j).owner \in remaining

(* C14: consume_events stops at the first queued event whose OpenOrders
   account was not passed: that event is not popped, it and the events behind
   it stay queued as they were, and the missing account is not touched; with
   the head event's account missing nothing changes at all *)
C14_StopsAtMissingAccount ==
    [][(ret'.op = "consume" /\ ret'.err = "Ok") =>
          LET k == Supplied(eq, ret'.remaining)
          IN (k < eq.count /\ k < ret'.limit) =>
                /\ ret'.count = k
                /\ eq'.count = eq.count - k
                /\ eq'.head = (eq.head + k) % EventCap
                /\ eq'.events = eq.events
                /\ oos'[LiveAt(eq, k).owner] = oos[LiveAt(eq, k).owner]
                /\ k = 0 => oos' = oos /\ eq' = eq]_vars

(* the head event's account was not passed although the next event's was:
   nothing was consumed *)
C14_Witness ==
    /\ ret.op = "consume" /\ ret.err = "Ok" /\ ret.limit = EventCap /\ ret.count = 0
    /\ eq.count = 2
    /\ LiveAt(eq, 0).owner \notin ret.remaining
    /\ LiveAt(eq, 1).owner \in ret.remaining

(* C15: with every needed account passed, consume_events with limit L on a
   queue of n events settles the first min(L, n) of them in queue order,
   returns that number, moves head by it modulo the capacity, lowers count by
   it and leaves the other events queued as they were *)
C15_ConsumesMinInOrder ==
    [][(ret'.op = "consume" /\ ret'.err = "Ok"
        /\ Supplied(eq, ret'.remaining) = eq.count) =>
          LET k == Min(ret'.limit, eq.count)
          IN /\ ret'.count = k
             /\ ret'.events = [j \in 1 .. k |-> LiveAt(eq, j - 1).order_id]
             /\ eq'.head = (eq.head + k) % EventCap
             /\ eq'.count = eq.count - k
             /\ eq'.events = eq.events
             /\ \A j \in 0 .. (eq'.count - 1) : LiveAt(eq', j) = LiveAt(eq, j + k)]_vars

(* two events were consumed from a queue whose head was at the last slot: the
   head wrapped around *)
C15_Witness ==
    /\ ret.op = "consume" /\ ret.err = "Ok" /\ ret.count = 2
    /\ eq.head = (EventCap - 1 + 2) % EventCap
    /\ LiveAt(eq, EventCap - 2).order_id = ret.events[1]
    /\ ret.events[1] # ret.events[2]

(* C16: consume_events settles an event at most once: every event it settles
   is popped in the same call, so it has left the queue when the call ends and
   no event is ever settled a second time *)
C16_SettledAtMostOnce ==
    [][settled' # settled =>
          LET new == DOMAIN settled' \ DOMAIN settled
          IN /\ \A id \in DOMAIN settled' : settled'[id] <= 1
             /\ Cardinality(new) = eq.count - eq'.count
             /\ \A j \in 0 .. (eq'.count - 1) : LiveAt(eq', j).order_id \notin new]_vars

(* a later consume_events call ran while the bytes of an event settled by an
   earlier call were still in the buffer, and did not settle it again *)
C16_Witness ==
    /\ ret.op = "consume" /\ ret.err = "Ok" /\ ret.count > 0
    /\ \E id \in DOMAIN settled :
          /\ \A j \in 1 .. Len(ret.events) : ret.events[j] # id
          /\ \E i \in EvIdx : eq.events[i].tag = EV_OUT /\ eq.events[i].order_id = id
          /\ settled[id] = 1

(* C17: consuming a Fill with zero taker fee and zero maker rebate changes the
   taker's and the maker's base totals, and their quote totals, by equal and
   opposite amounts *)
C17_FillIsZeroSum ==
    [][(/\ ret'.op = "consume" /\ ret'.err = "Ok" /\ ret'.count = 1
        /\ LiveAt(eq, 0).tag = EV_FILL
        /\ LiveAt(eq, 0).taker_fee = 0 /\ LiveAt(eq, 0).maker_rebate = 0) =>
          LET maker == LiveAt(eq, 0).owner
              taker == LiveAt(eq, 0).taker
          IN /\ BaseTotal(oos'[taker]) - BaseTotal(oos[taker])
                  = - (BaseTotal(oos'[maker]) - BaseTotal(oos[maker]))
             /\ QuoteTotal(oos'[taker]) - QuoteTotal(oos[taker])
                  = - (QuoteTotal(oos'[maker]) - QuoteTotal(oos[maker]))]_vars

(* C18: a settlement never stores a clamped balance: when consume_events
   returns Ok after releasing the funds of the Out event at the head, the
   locked balance it read covered the released amount and the free balance it
   read had room for it *)
C18_NoClampedBalance ==
    [][(/\ ret'.op = "consume" /\ ret'.err = "Ok" /\ ret'.count >= 1
        /\ LiveAt(eq, 0).tag = EV_OUT) =>
          LET ev == LiveAt(eq, 0)
              oo == oos[ev.owner]
          IN /\ ev.base_released > 0
                  => /\ raw_base_locked(oo) - ev.base_released >= 0
                     /\ raw_base_free(oo) + ev.base_released <= U64_MAX
             /\ ev.quote_released > 0
                  => /\ raw_quote_locked(oo) - ev.quote_released >= 0
                     /\ raw_quote_free(oo) + ev.quote_released <= U64_MAX]_vars

(* C19: events leave the ring buffer in the order they entered it, also when
   the buffer has wrapped: what pop has returned so far is the front of what
   push accepted, and the live slots from head on hold the rest in order *)
C19_Fifo ==
    /\ Len(dequeued) <= Len(enqueued)
    /\ dequeued = SubSeq(enqueued, 1, Len(dequeued))
    /\ eq.count = Len(enqueued) - Len(dequeued)
    /\ \A j \in 0 .. (eq.count - 1) :
         LiveAt(eq, j) = enqueued[Len(dequeued) + j + 1]

C19_Witness ==
    /\ Len(dequeued) > EventCap
    /\ eq.count > 0
    /\ ret.op = "pop"
    /\ ret.err = "Ok"

(* C20: the ring buffer never holds more than its capacity, and a push on a
   full buffer returns None and changes neither head, count, seq_num nor any
   slot *)
C20_NeverOverfull ==
    [][/\ eq'.count <= EventCap
       /\ (ret'.op = "push" /\ eq.count >= EventCap)
            => (ret'.err = "None" /\ eq' = eq)]_vars

C20_Witness ==
    /\ ret.op = "push"
    /\ ret.err = "None"
    /\ eq.count = EventCap
    /\ eq.head # 0

(* C21: every successful push is assigned a sequence number strictly greater
   than every number assigned before it (the header's seq_num is the last
   number assigned), whatever pops came between *)
C21_SeqNeverReused ==
    [][(ret'.op = "push" /\ ret'.err = "Ok") => ret'.seq_num > eq.seq_num]_vars

(* C22: the market's seq_num never decreases and never wraps; next_seq_num
   returns the previous value plus one, and at the maximum it returns no value
   and leaves seq_num alone, so that a placement made there fails and no two
   orders ever carry the same sequence number *)
C22_SeqNumNeverWraps ==
    [][/\ market'.seq_num >= market.seq_num
       /\ market'.seq_num <= U64_MAX
       /\ LET r == next_seq_num(market)
          IN IF market.seq_num = U64_MAX
             THEN ~r.some /\ r.m = market
             ELSE r.some /\ r.seq = market.seq_num + 1 /\ r.m.seq_num = r.seq
       /\ market'.seq_num # market.seq_num
            => (market'.seq_num = market.seq_num + 1 /\ placed' \ placed # {})
       /\ \A o \in placed' \ placed :
            /\ market'.seq_num = market.seq_num + 1
            /\ o.order_id % WORD = market'.seq_num
       /\ \A o1, o2 \in placed' :
            o1.order_id % WORD = o2.order_id % WORD => o1 = o2
       /\ market.seq_num = U64_MAX
            => /\ market' = market
               /\ placed' \subseteq placed
               /\ ret'.op = "place" => ret'.err # "Ok"]_vars

C22_Witness ==
    /\ market.seq_num = U64_MAX
    /\ ret.op = "place"
    /\ ret.err = "ArithmeticOverflow"

(* C23: of two order ids of one side, the one with the strictly better price
   (higher for a bid, lower for an ask) has the strictly lower key, and at
   equal price the one with the lower sequence number has the strictly lower
   key *)
C23_BetterPriceLowerKey ==
    ret.op = "order_id" =>
      LET better == IF ret.side = "Bid" THEN ret.price > ret.price2
                    ELSE ret.price < ret.price2
      IN /\ better => ret.id < ret.id2
         /\ (ret.price = ret.price2 /\ ret.seq_num < ret.seq_num2) => ret.id < ret.id2

C23_Witness ==
    /\ ret.op = "order_id"
    /\ ret.side = "Bid"
    /\ ret.price > ret.price2
    /\ ret.seq_num > ret.seq_num2
    /\ ret.id < ret.id2

(* C24: decoding the price of encode(side, p, s) with the same side gives p,
   and decoding its sequence number gives s *)
C24_OrderIdRoundTrip ==
    ret.op = "order_id" =>
      /\ ret.decoded_price = ret.price
      /\ ret.decoded_seq_num = ret.seq_num

C24_Witness ==
    /\ ret.op = "order_id"
    /\ ret.side = "Bid"
    /\ ret.price = U64_MAX
    /\ ret.seq_num = U64_MAX
    /\ ret.decoded_price = U64_MAX
    /\ ret.decoded_seq_num = U64_MAX

LevelsOf(books, m, side) ==
    IF m \notin DOMAIN books THEN EmptyMap
    ELSE IF side = "Bid" THEN books[m].bids ELSE books[m].asks

LevelDiffers(old_levels, new_levels, price) ==
    IF price \in DOMAIN old_levels
    THEN price \notin DOMAIN new_levels \/ old_levels[price] # new_levels[price]
    ELSE price \in DOMAIN new_levels

(* C25: apply_update returns exactly one change for each price whose level on
   the updated side differs between the prior and the new aggregation and
   none for a price whose level is the same; a change has new_quantity = 0
   exactly when its level was removed *)
C25_ChangesAreTheDifference ==
    [][ret'.op = "apply_update" =>
         LET old_levels == LevelsOf(indexer.books, ret'.market, ret'.side)
             new_levels == LevelsOf(indexer'.books, ret'.market, ret'.side)
             changes == ret'.changes
         IN /\ \A price \in AggPrices :
                 Cardinality({i \in 1 .. Len(changes) : changes[i].price = price})
                   = IF LevelDiffers(old_levels, new_levels, price) THEN 1 ELSE 0
            /\ \A i \in 1 .. Len(changes) :
                 /\ changes[i].side = ret'.side
                 /\ is_removal(changes[i]) <=> changes[i].price \notin DOMAIN new_levels]_vars

(* C26: a market's seq goes up by exactly one on every apply_update for that
   market and never goes below a value it had before *)
C26_SeqMonotone ==
    [][/\ ret'.op = "apply_update"
            => SeqOf(indexer'.books, ret'.market)
                 = SeqOf(indexer.books, ret'.market) + 1
       /\ \A m \in DOMAIN indexer'.books :
            m \in DOMAIN indexer.seq_seen
              => indexer'.books[m].seq >= indexer.seq_seen[m]]_vars

(* C27: applying the same orders to the same side of a market twice in a row
   gives an empty change list the second time and leaves the book as the
   first apply left it, last_slot and seq included *)
C27_ApplyIdempotent ==
    [][(/\ ret.op = "apply_update"
        /\ ret'.op = "apply_update"
        /\ ret'.market = ret.market
        /\ ret'.side = ret.side
        /\ ret'.orders = ret.orders
        /\ ret'.slot = ret.slot)
         => /\ ret'.changes = <<>>
            /\ indexer'.books = indexer.books]_vars

(* C28: with max_reconnect_attempts = N > 0 the task makes at most N reconnect
   attempts while connections keep failing, and ends Failed with
   MaxReconnectExceeded; with N = 0 it never enters Failed *)
C28_GivesUpAfterMax ==
    LET l == indexer.listener
    IN /\ l.max_reconnect_attempts > 0
            => Len(l.delays) <= l.max_reconnect_attempts
       /\ l.connection_state = "Failed"
            => (l.max_reconnect_attempts > 0 /\ l.result = "MaxReconnectExceeded")

(* C29: before its k-th consecutive reconnect attempt (k = 0, 1, 2, ...) the
   task sleeps min(base_delay * 2^k, 60 s) *)
C29_BackoffDoubles ==
    LET l == indexer.listener
    IN \A i \in 1 .. Len(l.delays) :
         l.delays[i] = Min(l.reconnect_delay_ms * 2 ^ (i - 1), 60000)

InChannel(update) ==
    Cardinality({i \in 1 .. Len(indexer.channel.buffer) :
                   indexer.channel.buffer[i] = update})

Received(update) ==
    Cardinality({i \in 1 .. Len(indexer.channel.received) :
                   indexer.channel.received[i] = update})

(* C30: an update for which send_update returned Ok is handed to the receiver
   exactly once (while the receiver lives it is in the channel or received,
   once in all, and nothing else is), also when the channel was full at the
   call: then updates_dropped goes up by one and the call waits until the
   update is enqueued; with the receiver dropped the call returns
   ChannelClosed *)
C30_SendUpdateDelivers ==
    [][LET l == indexer'.listener
           ch == indexer'.channel
       IN /\ \A u \in 1 .. MaxUpdates :
               /\ Received(u)' <= 1
               /\ ~ch.closed =>
                    InChannel(u)' + Received(u)' = IF u \in ch.acked THEN 1 ELSE 0
               /\ Received(u)' = 1 => u \in ch.acked
          /\ l.updates_dropped = ch.found_full
          /\ (ret'.op = "send_update" /\ indexer.listener.send_pc = "idle"
                /\ ~indexer.channel.closed
                /\ Len(indexer.channel.buffer) >= ChannelCap)
               => /\ l.updates_dropped = indexer.listener.updates_dropped + 1
                  /\ l.send_pc = "blocked"
                  /\ ret'.err = "Blocked"
          /\ l.send_pc = "blocked" => l.pending \notin ch.acked
          /\ (ret'.op = "send_update" /\ indexer.channel.closed)
               => ret'.err = "ChannelClosed"]_vars

C30_Witness ==
    /\ indexer.listener.updates_dropped = 1
    /\ indexer.listener.send_pc = "idle"
    /\ indexer.channel.acked = {1, 2, 3}
    /\ indexer.channel.received = <<1, 2, 3>>
    /\ ret.op = "recv"

Books == <<bids, asks>>

LeafSlots(book) == {i \in NodeIdx : book.nodes[i].tag = TAG_LEAF}

(* C33: each book side's leaf_count is the number of leaf nodes stored in
   that side *)
C33_LeafCountIsLeaves ==
    \A b \in 1 .. 2 : Books[b].leaf_count = Cardinality(LeafSlots(Books[b]))

RECURSIVE FreeListEnds(_, _, _)
FreeListEnds(book, p, visited) ==
    IF p = SENTINEL THEN TRUE
    ELSE IF ~InRange(p) THEN FALSE
    ELSE IF Idx(p) \in visited THEN FALSE
    ELSE IF book.nodes[Idx(p)].tag # TAG_FREE THEN FALSE
    ELSE FreeListEnds(book, read_next(book.nodes[Idx(p)]), visited \cup {Idx(p)})

(* C34: following next pointers from free_list_head visits only nodes tagged
   Free, visits none twice and ends at SENTINEL, so that no node of the free
   list is a leaf of the tree *)
C34_FreeListWellFormed ==
    \A b \in 1 .. 2 : FreeListEnds(Books[b], Books[b].free_list_head, {})

Written(old, new) == {i \in NodeIdx : new.nodes[i] # old.nodes[i]}

InsertTakesFreeHeadOrAppends(old, new) ==
    IF old.free_list_head # SENTINEL
    THEN /\ InRange(old.free_list_head)
         /\ Written(old, new) = {Idx(old.free_list_head)}
         /\ new.nodes[Idx(old.free_list_head)].tag = TAG_LEAF
         /\ new.free_list_head = read_next(old.nodes[Idx(old.free_list_head)])
    ELSE /\ \A i \in Written(old, new) :
              old.nodes[i].tag = TAG_UNINIT /\ new.nodes[i].tag = TAG_LEAF
         /\ Cardinality(Written(old, new)) = 1
         /\ new.free_list_head = SENTINEL

(* C35: an insert takes the slot at the free-list head when the free list is
   not empty and takes it off the free list; otherwise it writes the leaf to
   a slot that never held a node; a slot that has held a node is never given
   back *)
C35_AllocationPolicy ==
    [][/\ \A o \in placed' \ placed :
            IF o.side = "Bid" THEN InsertTakesFreeHeadOrAppends(bids, bids')
            ELSE InsertTakesFreeHeadOrAppends(asks, asks')
       /\ \A i \in NodeIdx :
            /\ bids.nodes[i].tag # TAG_UNINIT => bids'.nodes[i].tag # TAG_UNINIT
            /\ asks.nodes[i].tag # TAG_UNINIT => asks'.nodes[i].tag # TAG_UNINIT]_vars

(* C36: every pop of the event queue leaves the vacated slot Empty, moves
   head on by one modulo the capacity and lowers count by one; a step that
   pops k events does so k times *)
C36_PopClearsSlot ==
    [][eq'.count < eq.count =>
         LET k == eq.count - eq'.count
         IN /\ eq'.head = (eq.head + k) % EventCap
            /\ \A j \in 0 .. (k - 1) :
                 eq'.events[(eq.head + j) % EventCap].tag = EV_EMPTY]_vars

(* C37: while the market is Active or Paused, cancel_order signed by the
   owner or the delegate returns Ok for every order of the account that was
   placed and is not yet cancelled or filled, whatever was placed or cancelled
   on that side in between; stated here for a queue that still has room *)
C37_LiveOrderCancels ==
    [][(/\ ret'.op = "cancel"
        /\ market.status # "Closed"
        /\ eq.count < EventCap
        /\ ret'.authority \in {oos[ret'.acct].owner} \cup ({oos[ret'.acct].delegate} \ {ZERO_KEY})
        /\ \E o \in placed : /\ o.order_id = ret'.order_id
                             /\ o.acct = ret'.acct
                             /\ o.side = ret'.side
        /\ \E i \in SlotIdx : /\ oos[ret'.acct].orders[i].order_id = ret'.order_id
                              /\ oos[ret'.acct].orders[i].side = ret'.side)
          => ret'.err = "Ok"]_vars

SideBook(side) == IF side = "Bid" THEN bids ELSE asks

LeavesWithKey(book, id) == {n \in LeafSlots(book) : book.nodes[n].key = id}

SlotsWithOrder(oo, id, side) ==
    {i \in SlotIdx : oo.orders[i].order_id = id /\ oo.orders[i].side = side}

(* C38: the non-empty order slots and the leaves of the two sides correspond
   one-to-one: each open slot's order_id is the key of exactly one leaf on the
   slot's side, and each leaf's key is recorded in exactly one slot of its
   owner's account *)
C38_SlotsMatchLeaves ==
    /\ \A a \in Accounts, i \in SlotIdx :
          oos[a].orders[i].order_id # EMPTY_ORDER_ID
            => Cardinality(LeavesWithKey(SideBook(oos[a].orders[i].side),
                                         oos[a].orders[i].order_id)) = 1
    /\ \A side \in Sides : \A n \in LeafSlots(SideBook(side)) :
          /\ SideBook(side).nodes[n].owner \in Accounts
          /\ Cardinality(SlotsWithOrder(oos[SideBook(side).nodes[n].owner],
                                        SideBook(side).nodes[n].key, side)) = 1

NoFills == \A i \in EvIdx : eq.events[i].tag # EV_FILL

(* the placed orders of account a on one side that were not cancelled since *)
RestingOf(a, side) == {o \in placed : o.acct = a /\ o.side = side}

(* C39: in a state with no fills, each account's base_locked is the sum of the
   lock amounts of its resting asks and its quote_locked the sum of the lock
   amounts of its resting bids *)
C39_LockedIsSumOfLocks ==
    NoFills => \A a \in Accounts :
                  /\ oos[a].base_locked = LockSum(RestingOf(a, "Ask"))[1]
                  /\ oos[a].quote_locked = LockSum(RestingOf(a, "Bid"))[2]

(***************************************************************************)
(* Account decoder  (indexer parser/mod.rs)                                *)
(***************************************************************************)
(* market addresses, by the bytes of them the decoder comes to read: bytes
   0..4 (head), 4..8 (count), 16 (b16) and 24..32 (lo) *)
MarketKeyTails ==
    {[head |-> 0, count |-> 0, b16 |-> 0, lo |-> 0],
     [head |-> 0, count |-> 1, b16 |-> 0, lo |-> 0],
     [head |-> 0, count |-> 1, b16 |-> TAG_LEAF, lo |-> 1]}

parse_leaf_node(data) ==
    IF data.tag # 2 THEN NONE
    ELSE [order_id |-> data.key, owner |-> data.owner,
          price |-> (data.key \div WORD) % WORD,
          quantity |-> data.quantity, client_order_id |-> data.client_order_id]

(* the 88 bytes the decoder takes for node k of a book side as the engine lays
   it out.  The decoder reads nodes from byte 32 on; the engine keeps a
   136-byte header (market address at 16..48, is_bids at 48, leaf_count,
   free_list_head and root at 56..68, reserved zeros up to 136) and its nodes
   behind it.  Chunk 0 is header bytes 32..120; chunk k > 0 starts 16 bytes
   before engine node k - 1, at a byte the engine never writes. *)
decoder_chunk(book, is_bids, mk, k) ==
    IF k = 0
    THEN [ZeroNode EXCEPT !.tag = mk.b16,
                          !.key = mk.lo + (IF is_bids THEN WORD ELSE 0),
                          !.owner = <<book.leaf_count, book.free_list_head, book.root>>]
    ELSE ZeroNode

parse_orderbook(book, is_bids, mk) ==
    LET node_count == NodeCap + 1
        chunks == [k \in 1 .. node_count |-> decoder_chunk(book, is_bids, mk, k - 1)]
        leaves == SelectSeq(chunks, LAMBDA c : c.tag = 2)
    IN [i \in 1 .. Len(leaves) |-> parse_leaf_node(leaves[i])]

(* C31: every resting order that place_order wrote into a book side with side
   s and price p comes out of the decoder as a parsed order with price p, for
   bids as well as for asks *)
C31_DecodedPrice ==
    \A mk \in MarketKeyTails : \A o \in placed :
       LeavesWithKey(SideBook(o.side), o.order_id) # {}
         => LET parsed == parse_orderbook(SideBook(o.side), o.side = "Bid", mk)
            IN \E i \in 1 .. Len(parsed) : /\ parsed[i].order_id = o.order_id
                                           /\ parsed[i].price = o.price

(* the Option is a sequence of at most one ParsedEvent *)
parse_event(data) ==
    CASE data.tag = 0 -> <<[event_type |-> "Fill"]>>
      [] data.tag = 1 -> <<[event_type |-> "Out"]>>
      [] OTHER -> <<>>

RECURSIVE parse_event_loop(_, _, _)
parse_event_loop(data, i, events) ==
    IF i >= data.count THEN events
    ELSE LET idx == (data.head + i) % data.capacity
         IN parse_event_loop(data, i + 1, events \o parse_event(data.events[idx]))

parse_event_queue(data) ==
    IF data.capacity = 0 THEN <<>> ELSE parse_event_loop(data, 0, <<>>)

(* what the decoder reads from an event queue account as the engine lays it
   out.  The engine keeps the market address at bytes 16..48, head at 48,
   count at 52 and 160-byte events from byte 128 on; the decoder takes head
   from bytes 16..20, count from bytes 20..24 and 144-byte events from byte
   32 on, so both come from the market address and event 0 starts at byte 16
   of it.  With the addresses of MarketKeyTails only event 0 is read. *)
decoder_queue(q, mk) ==
    [head |-> mk.head, count |-> mk.count,
     capacity |-> (96 + 160 * EventCap) \div 144,
     events |-> [idx \in {0} |-> [tag |-> mk.b16]]]

EngineKind(ev) == IF ev.tag = EV_FILL THEN "Fill" ELSE "Out"

(* C32: decoding an event queue the engine wrote events into returns one
   event per live slot, in FIFO order from head with wrap-around, each with
   the kind (Fill or Out) the engine wrote into that slot *)
C32_DecodedEvents ==
    \A mk \in MarketKeyTails : eq.count > 0 =>
       LET decoded == parse_event_queue(decoder_queue(eq, mk))
       IN /\ Len(decoded) = eq.count
          /\ \A j \in 0 .. (eq.count - 1) :
                decoded[j + 1].event_type = EngineKind(LiveAt(eq, j))

(* C40: once the receiving end of the update channel is dropped, run()
   eventually returns *)
C40_RunReturns == indexer.channel.closed ~> indexer.listener.pc = "done"

====
